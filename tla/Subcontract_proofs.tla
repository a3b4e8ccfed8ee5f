-------------------------- MODULE Subcontract_proofs --------------------------
(***************************************************************************)
(* Proofs about Subcontract and Delegation, for every number of concurrent *)
(* calls, every budget, bounty and manifest, every result that may come    *)
(* back, and any number of faults.                                         *)
(***************************************************************************)
EXTENDS Subcontract, FiniteFacts, TLAPS

USE DelegationAssumption, SubcontractAssumption

-----------------------------------------------------------------------------
(* Delegation.                                                              *)

(* A cap inside a cap inside a third one is inside the third.               *)
LEMMA CapsCompose ==
    ASSUME NEW a \in Nat, NEW b \in Nat, NEW c \in Nat, CapWithin(a, b), CapWithin(b, c)
    PROVE  CapWithin(a, c)
BY DEF CapWithin, NoCap

LEMMA SpecFields ==
    ASSUME NEW s \in CapabilitySpec
    PROVE  /\ s.ro \subseteq Paths /\ s.rw \subseteq Paths /\ s.network \in BOOLEAN
           /\ s.mem_cap \in Nat /\ s.rate_cap \in Nat
<1>1. s.mem_cap \in 0 .. MaxCap /\ s.rate_cap \in 0 .. MaxCap
    BY DEF CapabilitySpec
<1> QED
    BY <1>1 DEF CapabilitySpec

(* capability_subset is a preorder.                                         *)
LEMMA SubsetReflexive ==
    ASSUME NEW a \in CapabilitySpec
    PROVE  capability_subset(a, a)
BY SpecFields DEF capability_subset, CapWithin

LEMMA SubsetTransitive ==
    ASSUME NEW a \in CapabilitySpec, NEW b \in CapabilitySpec, NEW c \in CapabilitySpec,
           capability_subset(a, b), capability_subset(b, c)
    PROVE  capability_subset(a, c)
<1>1. a.ro \subseteq c.ro /\ a.rw \subseteq c.rw
    BY DEF capability_subset
<1>2. a.network => c.network
    BY DEF capability_subset
<1>3. CapWithin(a.mem_cap, c.mem_cap)
    BY SpecFields, CapsCompose DEF capability_subset
<1>4. CapWithin(a.rate_cap, c.rate_cap)
    BY SpecFields, CapsCompose DEF capability_subset
<1> QED
    BY <1>1, <1>2, <1>3, <1>4 DEF capability_subset

(* One hop of a chain that verifies: the manifest stays inside that of the  *)
(* hop above, because the grant lies between them.                          *)
LEMMA HopWithin ==
    ASSUME NEW chain \in Seq(Hop), verify_delegation(chain),
           NEW i \in 2 .. Len(chain)
    PROVE  capability_subset(chain[i].manifest, chain[i - 1].manifest)
<1>1. i \in DOMAIN chain /\ i - 1 \in DOMAIN chain /\ i > 1
    OBVIOUS
<1>2. chain[i] \in Hop /\ chain[i - 1] \in Hop
    BY <1>1
<1>3. /\ chain[i].manifest \in CapabilitySpec /\ chain[i - 1].manifest \in CapabilitySpec
      /\ chain[i].grants \subseteq CapabilitySpec
    BY <1>2 DEF Hop
<1>4. PICK g \in chain[i].grants :
          capability_subset(chain[i].manifest, g) /\ capability_subset(g, chain[i - 1].manifest)
    BY <1>1 DEF verify_delegation
<1> QED
    BY <1>3, <1>4, SubsetTransitive

(* Bounds compose over a delegation chain of any length: what a hop may do, *)
(* and what its sandbox let it do, is inside the manifest of every hop      *)
(* above it, the root's included (verify_delegation, delegation.py).        *)
THEOREM AuthorityOnlyShrinks ==
    ASSUME NEW chain \in Seq(Hop), verify_delegation(chain),
           NEW i \in 1 .. Len(chain), NEW j \in i .. Len(chain)
    PROVE  /\ capability_subset(chain[j].manifest, chain[i].manifest)
           /\ capability_subset(chain[j].enforcement, chain[i].manifest)
<1>1. Len(chain) \in Nat /\ DOMAIN chain = 1 .. Len(chain)
    OBVIOUS
<1>2. \A k \in 1 .. Len(chain) :
          chain[k].manifest \in CapabilitySpec /\ chain[k].enforcement \in CapabilitySpec
    <2> SUFFICES ASSUME NEW k \in 1 .. Len(chain)
                 PROVE  /\ chain[k].manifest \in CapabilitySpec
                        /\ chain[k].enforcement \in CapabilitySpec
        OBVIOUS
    <2>1. chain[k] \in Hop
        BY <1>1
    <2> QED
        BY <2>1 DEF Hop
<1> DEFINE Wider == {k \in i .. Len(chain) :
                       ~capability_subset(chain[k].manifest, chain[i].manifest)}
<1>3. Wider = {}
    <2> SUFFICES ASSUME Wider # {} PROVE FALSE
        OBVIOUS
    <2>1. PICK k \in Wider : \A l \in Wider : k <= l
        <3>1. Wider \in SUBSET Nat
            BY <1>1
        <3> HIDE DEF Wider
        <3> QED
            BY <3>1, HasLeast
    <2>2. k # i
        BY <1>2, SubsetReflexive
    <2>3. k \in 2 .. Len(chain) /\ k - 1 \in i .. Len(chain) /\ k \in 1 .. Len(chain)
          /\ k - 1 \in 1 .. Len(chain)
        BY <1>1, <2>2
    <2>4. k - 1 \notin Wider
        BY <1>1, <2>1, <2>3
    <2>5. capability_subset(chain[k - 1].manifest, chain[i].manifest)
        BY <2>3, <2>4
    <2>6. capability_subset(chain[k].manifest, chain[k - 1].manifest)
        BY <2>3, HopWithin
    <2>7. capability_subset(chain[k].manifest, chain[i].manifest)
        BY <1>2, <2>3, <2>5, <2>6, SubsetTransitive
    <2> QED
        BY <2>1, <2>7
<1>4. capability_subset(chain[j].manifest, chain[i].manifest)
    BY <1>3
<1>5. j \in 1 .. Len(chain)
    BY <1>1
<1>6. capability_subset(chain[j].enforcement, chain[j].manifest)
    BY <1>1, <1>5 DEF verify_delegation
<1> QED
    BY <1>2, <1>4, <1>5, <1>6, SubsetTransitive

-----------------------------------------------------------------------------
(* Payments.                                                                *)

(* No committed payment has been reported as a failure.                     *)
NoRaise == faults["raise"] = Faults["raise"]

Typed == TypeOK /\ faults["raise"] <= Faults["raise"]

(* A call that has not cosigned has paid nothing; one that is about to pay  *)
(* or has just paid holds its reservation, and a held reservation is not    *)
(* paid by another path.                                                    *)
OrderAt(c) ==
    /\ pc[c] \in {"new", "waiting", "verified"} => ~Paid(c, 1)
    /\ pc[c] = "new" => book[c] = "none" /\ ~Paid(c, 2)
    /\ pc[c] \in {"verified", "cosigned"} => book[c] = "active"
    /\ book[c] = "active" => ~Paid(c, 2)

(* What is being paid for, or was, has been verified.                       *)
VerifiedAt(c) ==
    pc[c] \in {"verified", "cosigned"} \/ Paid(c, 1) =>
        bundle[c] \in Bundles /\ Payable(c, bundle[c])

OnceAt(c) ==
    /\ book[c] = "released" => ~PaidAny(c)
    /\ ~(Paid(c, 1) /\ Paid(c, 2))

IInv ==
    /\ Typed
    /\ \A c \in Calls : OrderAt(c) /\ VerifiedAt(c)
    /\ NoRaise => \A c \in Calls : OnceAt(c)

LEMMA InitHolds == Init => IInv
<1> SUFFICES ASSUME Init PROVE IInv
    OBVIOUS
<1>1. Typed
    BY DEF Init, Typed, TypeOK, Steps, ResvState, FaultKinds
<1>2. \A c \in Calls : ~Paid(c, 1) /\ ~Paid(c, 2)
    BY DEF Init, Paid
<1> QED
    BY <1>1, <1>2 DEF Init, IInv, OrderAt, VerifiedAt, OnceAt, PaidAny

(* The two hops that the coordinator checks.                                *)
LEMMA PayableIsBounded ==
    ASSUME NEW c \in Calls, NEW b \in Bundles, Payable(c, b)
    PROVE  LET done == spec_from_enforcement(b.enforcement)
           IN  /\ b.chain_ok /\ b.manifest_hash_ok /\ b.agent # Me
               /\ capability_subset(done, Required[c])
               /\ capability_subset(done, Own)
<1> DEFINE done == spec_from_enforcement(b.enforcement)
           chain == Chain(c, b)
<1>1. /\ b.agent \in Keys /\ b.manifest \in CapabilitySpec /\ b.enforcement \in Enforcement
    BY DEF Bundle
<1>2. done \in CapabilitySpec
    <2>1. NoCap \in 0 .. MaxCap
        BY DEF NoCap
    <2> QED
        BY <1>1, <2>1 DEF spec_from_enforcement, CapabilitySpec, Enforcement
<1>3. Required[c] \in CapabilitySpec
    OBVIOUS
<1>4. /\ Len(chain) = 2 /\ DOMAIN chain = {1, 2}
      /\ chain[1].agent = Me /\ chain[1].manifest = Own
      /\ chain[2].agent = b.agent /\ chain[2].manifest = b.manifest
      /\ chain[2].enforcement = done /\ chain[2].grants = {Required[c]}
    BY DEF Chain
<1>5. b.chain_ok /\ b.manifest_hash_ok /\ verify_delegation(chain)
    BY DEF Payable
<1> HIDE DEF chain, done
<1>6. /\ b.agent # Me
      /\ capability_subset(done, b.manifest)
      /\ capability_subset(b.manifest, Required[c])
      /\ capability_subset(Required[c], Own)
    BY <1>4, <1>5 DEF verify_delegation
<1>7. capability_subset(done, Required[c])
    BY <1>1, <1>2, <1>3, <1>6, SubsetTransitive
<1>8. capability_subset(done, Own)
    BY <1>2, <1>3, <1>6, <1>7, SubsetTransitive
<1> QED
    BY <1>5, <1>6, <1>7, <1>8 DEF done

LEMMA PropertyFromInv == IInv => PaidRightly
<1> SUFFICES ASSUME IInv PROVE PaidRightly
    OBVIOUS
<1>1. PaidXorAbandoned
    BY DEF IInv, NoRaise, OnceAt, PaidXorAbandoned
<1>2. PaidWithinBounds
    BY PayableIsBounded DEF IInv, VerifiedAt, PaidWithinBounds
<1> QED
    BY <1>1, <1>2 DEF PaidRightly

-----------------------------------------------------------------------------
(* The operations on the book and the budget.                               *)
LEMMA LargerOfTwo ==
    ASSUME NEW x \in Int
    PROVE  Max({x, 0}) \in Nat
<1>1. \E y \in {x, 0} : \A z \in {x, 0} : y >= z
    OBVIOUS
<1>2. Max({x, 0}) \in {x, 0} /\ \A z \in {x, 0} : Max({x, 0}) >= z
    BY <1>1 DEF Max
<1> QED
    BY <1>2

LEMMA ReleaseTyped ==
    ASSUME Typed, NEW c \in Calls, release(c)
    PROVE  /\ book' \in [Calls -> ResvState] /\ allocated' \in Nat
           /\ \A d \in Calls : d # c => book'[d] = book[d]
           /\ book'[c] = IF book[c] = "active" THEN "released" ELSE book[c]
<1>1. /\ book \in [Calls -> ResvState] /\ allocated \in Nat /\ Bounty[c] \in Nat
    BY DEF Typed, TypeOK
<1>2. CASE book[c] = "active"
    <2>1. allocated - Bounty[c] \in Int
        BY <1>1
    <2>2. book' = [book EXCEPT ![c] = "released"] /\ allocated' = Max({allocated - Bounty[c], 0})
        BY <1>2 DEF release, refund
    <2>3. allocated' \in Nat
        BY <2>1, <2>2, LargerOfTwo
    <2> QED
        BY <1>1, <1>2, <2>2, <2>3 DEF ResvState
<1>3. CASE book[c] # "active"
    BY <1>1, <1>3 DEF release
<1> QED
    BY <1>2, <1>3

LEMMA PaymentTyped ==
    ASSUME NEW c \in Calls, NEW k \in {1, 2}, NEW to \in Keys \cup {Other}, NEW final \in BOOLEAN
    PROVE  Payment(c, k, to, final) \in Entry
<1>1. <<c, k>> \in EntryIds
    BY DEF EntryIds
<1>2. Bounty[c] \in Nat /\ Me \in Keys \cup {Other}
    OBVIOUS
<1> QED
    BY <1>1, <1>2 DEF Payment, Entry

LEMMA SpendTyped ==
    ASSUME Typed, NEW f \in FaultKinds, Spend(f)
    PROVE  /\ faults' \in [FaultKinds -> Nat]
           /\ faults'["raise"] <= Faults["raise"]
           /\ NoRaise' => NoRaise /\ f # "raise"
<1>1. /\ faults \in [FaultKinds -> Nat] /\ "raise" \in FaultKinds
      /\ faults["raise"] \in Nat /\ Faults["raise"] \in Nat
      /\ faults["raise"] <= Faults["raise"]
    BY DEF Typed, TypeOK, FaultKinds
<1>2. faults[f] \in Nat /\ faults[f] > 0
    BY <1>1 DEF Spend
<1>3. faults' = [faults EXCEPT ![f] = faults[f] - 1]
    BY DEF Spend
<1>4. faults' \in [FaultKinds -> Nat]
    BY <1>1, <1>2, <1>3
<1>5. CASE f = "raise"
    <2>1. faults'["raise"] = faults["raise"] - 1
        BY <1>1, <1>3, <1>5
    <2> QED
        BY <1>1, <1>4, <2>1 DEF NoRaise
<1>6. CASE f # "raise"
    <2>1. faults'["raise"] = faults["raise"]
        BY <1>1, <1>3, <1>6
    <2> QED
        BY <1>1, <1>4, <1>6, <2>1 DEF NoRaise
<1> QED
    BY <1>5, <1>6

(* Only the named payment of c becomes final.                               *)
LEMMA UnsettledPaysNothing ==
    ASSUME NEW e, rows' = rows \cup {e}, ~e.settled
    PROVE  \A d, k : Paid(d, k)' = Paid(d, k)
BY DEF Paid

LEMMA SameRows ==
    ASSUME rows' = rows
    PROVE  \A d, k : Paid(d, k)' = Paid(d, k)
BY DEF Paid

(* A step that is about one call has to keep the invariant for that call.   *)
LEMMA OneCall ==
    ASSUME IInv, Typed', NEW c \in Calls, NoRaise' => NoRaise,
           \A d \in Calls : d # c =>
               /\ pc'[d] = pc[d] /\ book'[d] = book[d] /\ bundle'[d] = bundle[d]
               /\ Paid(d, 1)' = Paid(d, 1) /\ Paid(d, 2)' = Paid(d, 2),
           OrderAt(c)', VerifiedAt(c)', NoRaise' => OnceAt(c)'
    PROVE  IInv'
<1>1. ASSUME NEW d \in Calls PROVE OrderAt(d)' /\ VerifiedAt(d)'
    <2>1. CASE d = c
        BY <2>1
    <2>2. CASE d # c
        <3>1. OrderAt(d) /\ VerifiedAt(d)
            BY DEF IInv
        <3> QED
            BY <2>2, <3>1 DEF OrderAt, VerifiedAt
    <2> QED
        BY <2>1, <2>2
<1>2. ASSUME NoRaise', NEW d \in Calls PROVE OnceAt(d)'
    <2>1. CASE d = c
        BY <1>2, <2>1
    <2>2. CASE d # c
        <3>1. OnceAt(d)
            BY <1>2 DEF IInv
        <3> QED
            BY <2>2, <3>1 DEF OnceAt, PaidAny
    <2> QED
        BY <2>1, <2>2
<1> QED
    BY <1>1, <1>2 DEF IInv

-----------------------------------------------------------------------------
(* The steps of a call.                                                     *)
LEMMA RefuseStep ==
    ASSUME IInv, NEW c \in Calls, refuse(c)
    PROVE  IInv'
<1>1. Typed'
    BY DEF IInv, Typed, TypeOK, refuse, Goto, Steps
<1>2. \A d \in Calls : d # c => pc'[d] = pc[d] /\ book'[d] = book[d] /\ bundle'[d] = bundle[d]
    BY DEF IInv, Typed, TypeOK, refuse, Goto
<1>3. \A d \in Calls, k \in {1, 2} : Paid(d, k)' = Paid(d, k)
    BY SameRows DEF refuse
<1>4. pc[c] = "new" /\ pc'[c] = "failed" /\ book' = book /\ bundle' = bundle /\ faults' = faults
    BY DEF IInv, Typed, TypeOK, refuse, Goto, Startable
<1>5. OrderAt(c) /\ VerifiedAt(c)
    BY DEF IInv
<1>6. OrderAt(c)' /\ VerifiedAt(c)' /\ (NoRaise' => NoRaise /\ OnceAt(c)')
    BY <1>3, <1>4, <1>5 DEF OrderAt, VerifiedAt, OnceAt, PaidAny, NoRaise
<1> QED
    BY <1>1, <1>2, <1>3, <1>6, OneCall

LEMMA ReserveStep ==
    ASSUME IInv, NEW c \in Calls, reserve_and_post(c)
    PROVE  IInv'
<1>1. /\ pc \in [Calls -> Steps] /\ book \in [Calls -> ResvState]
      /\ allocated \in Nat /\ Bounty[c] \in Nat /\ pc[c] = "new"
      /\ pc' = [pc EXCEPT ![c] = "waiting"] /\ book' = [book EXCEPT ![c] = "active"]
      /\ allocated' = allocated + Bounty[c]
      /\ UNCHANGED <<bundle, rows, copies, faults>>
    BY DEF IInv, Typed, TypeOK, reserve_and_post, Reserve, Goto, Startable
<1>2. Typed'
    BY <1>1 DEF IInv, Typed, TypeOK, Steps, ResvState
<1>3. \A d \in Calls, k \in {1, 2} : Paid(d, k)' = Paid(d, k)
    BY <1>1, SameRows
<1>4. OrderAt(c) /\ VerifiedAt(c)
    BY DEF IInv
<1>5. OrderAt(c)' /\ VerifiedAt(c)' /\ (NoRaise' => NoRaise /\ OnceAt(c)')
    BY <1>1, <1>3, <1>4 DEF OrderAt, VerifiedAt, OnceAt, PaidAny, NoRaise
<1> QED
    BY <1>1, <1>2, <1>3, <1>5, OneCall

(* Failing a call that has not cosigned releases what it holds.             *)
LEMMA FailStep ==
    ASSUME IInv, NEW c \in Calls, pc[c] \in {"waiting", "verified"}, _fail(c),
           UNCHANGED <<bundle, copies, faults>>, rows' \subseteq Entry,
           \A d \in Calls, k \in {1, 2} : Paid(d, k)' = Paid(d, k)
    PROVE  IInv'
<1>1. /\ pc \in [Calls -> Steps] /\ pc' = [pc EXCEPT ![c] = "failed"] /\ release(c)
    BY DEF IInv, Typed, TypeOK, _fail, Goto
<1>2. /\ book' \in [Calls -> ResvState] /\ allocated' \in Nat
      /\ \A d \in Calls : d # c => book'[d] = book[d]
      /\ book'[c] = IF book[c] = "active" THEN "released" ELSE book[c]
    BY <1>1, ReleaseTyped DEF IInv
<1>3. Typed'
    BY <1>1, <1>2 DEF IInv, Typed, TypeOK, Steps
<1>4. OrderAt(c) /\ VerifiedAt(c) /\ (NoRaise => OnceAt(c))
    BY DEF IInv
<1>5. OrderAt(c)' /\ VerifiedAt(c)' /\ (NoRaise' => NoRaise /\ OnceAt(c)')
    BY <1>1, <1>2, <1>4 DEF OrderAt, VerifiedAt, OnceAt, PaidAny, NoRaise
<1> QED
    BY <1>1, <1>2, <1>3, <1>5, OneCall

LEMMA GiveUpStep ==
    ASSUME IInv, NEW c \in Calls, give_up(c) \/ cosign_rejected(c)
    PROVE  IInv'
<1>1. \A d \in Calls, k \in {1, 2} : Paid(d, k)' = Paid(d, k)
    BY SameRows DEF give_up, cosign_rejected
<1>2. rows' \subseteq Entry
    BY DEF IInv, Typed, TypeOK, give_up, cosign_rejected
<1> QED
    BY <1>1, <1>2, FailStep DEF give_up, cosign_rejected

(* An exception that nobody catches leaves hold and rows as they are.       *)
LEMMA EscapeStep ==
    ASSUME IInv, NEW c \in Calls, escape(c)
    PROVE  IInv'
<1>1. /\ pc \in [Calls -> Steps] /\ pc[c] = "waiting" /\ "escape" \in FaultKinds
      /\ pc' = [pc EXCEPT ![c] = "raised"] /\ Spend("escape")
      /\ UNCHANGED <<bundle, book, allocated, rows, copies>>
    BY DEF IInv, Typed, TypeOK, escape, Goto, FaultKinds
<1>2. /\ faults' \in [FaultKinds -> Nat] /\ faults'["raise"] <= Faults["raise"]
      /\ NoRaise' => NoRaise
    BY <1>1, SpendTyped DEF IInv
<1>3. Typed'
    BY <1>1, <1>2 DEF IInv, Typed, TypeOK, Steps
<1>4. \A d \in Calls, k \in {1, 2} : Paid(d, k)' = Paid(d, k)
    BY <1>1, SameRows
<1>5. OrderAt(c) /\ VerifiedAt(c) /\ (NoRaise => OnceAt(c))
    BY DEF IInv
<1>6. OrderAt(c)' /\ VerifiedAt(c)' /\ (NoRaise' => OnceAt(c)')
    BY <1>1, <1>2, <1>4, <1>5 DEF OrderAt, VerifiedAt, OnceAt, PaidAny
<1> QED
    BY <1>1, <1>2, <1>3, <1>4, <1>6, OneCall

LEMMA ResultStep ==
    ASSUME IInv, NEW c \in Calls, NEW b \in Bundles, result_arrives(c, b)
    PROVE  IInv'
<1>1. /\ pc[c] = "waiting" /\ rows' = rows \cup {Payment(c, 1, b.agent, FALSE)}
      /\ UNCHANGED <<copies, faults>>
    BY DEF result_arrives
<1>2. \A d \in Calls, k \in {1, 2} : Paid(d, k)' = Paid(d, k)
    <2>1. ~Payment(c, 1, b.agent, FALSE).settled
        BY DEF Payment
    <2> QED
        BY <1>1, <2>1, UnsettledPaysNothing
<1>3. rows' \subseteq Entry
    <2>1. b.agent \in Keys
        BY DEF Bundle
    <2> QED
        BY <1>1, <2>1, PaymentTyped DEF IInv, Typed, TypeOK
<1>4. /\ pc \in [Calls -> Steps] /\ book \in [Calls -> ResvState]
      /\ bundle \in [Calls -> Bundles \cup {NoBundle}]
      /\ OrderAt(c) /\ VerifiedAt(c) /\ (NoRaise => OnceAt(c))
    BY DEF IInv, Typed, TypeOK
<1>5. CASE Goto(c, "failed") /\ UNCHANGED <<bundle, book, allocated>>
    <2>1. Typed'
        BY <1>1, <1>3, <1>5 DEF IInv, Typed, TypeOK, Goto, Steps
    <2>2. OrderAt(c)' /\ VerifiedAt(c)' /\ (NoRaise' => NoRaise /\ OnceAt(c)')
        BY <1>1, <1>2, <1>4, <1>5 DEF OrderAt, VerifiedAt, OnceAt, PaidAny, NoRaise, Goto
    <2> QED
        BY <1>2, <1>4, <1>5, <2>1, <2>2, OneCall DEF Goto
<1>6. CASE _fail(c) /\ UNCHANGED bundle
    BY <1>1, <1>2, <1>3, <1>6, FailStep
<1>7. CASE /\ book[c] = "active" /\ Payable(c, b)
           /\ bundle' = [bundle EXCEPT ![c] = b]
           /\ Goto(c, "verified")
           /\ UNCHANGED <<book, allocated>>
    <2>1. Typed'
        BY <1>1, <1>3, <1>7 DEF IInv, Typed, TypeOK, Goto, Steps
    <2>2. pc'[c] = "verified" /\ bundle'[c] = b /\ book'[c] = "active"
        BY <1>4, <1>7 DEF Goto
    <2>3. OrderAt(c)' /\ VerifiedAt(c)' /\ (NoRaise' => NoRaise /\ OnceAt(c)')
        BY <1>1, <1>2, <1>4, <1>7, <2>2 DEF OrderAt, VerifiedAt, OnceAt, PaidAny, NoRaise
    <2> QED
        BY <1>2, <1>4, <1>7, <2>1, <2>3, OneCall DEF Goto
<1> QED
    BY <1>5, <1>6, <1>7 DEF result_arrives

LEMMA CosignStep ==
    ASSUME IInv, NEW c \in Calls, cosign_as_payer(c)
    PROVE  IInv'
<1> DEFINE p == Payment(c, 1, bundle[c].agent, TRUE)
<1>1. /\ pc \in [Calls -> Steps] /\ pc[c] = "verified"
      /\ rows' = {e \in rows : e.id # <<c, 1>>} \cup {p}
      /\ pc' = [pc EXCEPT ![c] = "cosigned"]
      /\ UNCHANGED <<bundle, book, allocated, copies, faults>>
      /\ OrderAt(c) /\ VerifiedAt(c) /\ (NoRaise => OnceAt(c))
    BY DEF IInv, Typed, TypeOK, cosign_as_payer, Goto
<1>2. bundle[c] \in Bundles /\ bundle[c].agent \in Keys
    BY <1>1 DEF VerifiedAt, Bundle
<1>3. Typed'
    BY <1>1, <1>2, PaymentTyped DEF IInv, Typed, TypeOK, Steps
<1>4. p.id = <<c, 1>> /\ p.settled
    BY DEF Payment
<1> HIDE DEF p
<1>5. /\ Paid(c, 2)' = Paid(c, 2)
      /\ \A d \in Calls : d # c => Paid(d, 1)' = Paid(d, 1) /\ Paid(d, 2)' = Paid(d, 2)
    BY <1>1, <1>4 DEF Paid
<1>6. OrderAt(c)' /\ VerifiedAt(c)' /\ (NoRaise' => NoRaise /\ OnceAt(c)')
    BY <1>1, <1>5 DEF OrderAt, VerifiedAt, OnceAt, PaidAny, NoRaise
<1> QED
    BY <1>1, <1>3, <1>5, <1>6, OneCall

LEMMA RaiseStep ==
    ASSUME IInv, NEW c \in Calls, cosign_raises(c)
    PROVE  IInv'
<1>1. /\ pc \in [Calls -> Steps] /\ pc[c] = "cosigned"
      /\ pc' = [pc EXCEPT ![c] = "failed"] /\ release(c) /\ Spend("raise")
      /\ UNCHANGED <<bundle, rows, copies>> /\ "raise" \in FaultKinds
      /\ OrderAt(c) /\ VerifiedAt(c)
    BY DEF IInv, Typed, TypeOK, cosign_raises, _fail, Goto, FaultKinds
<1>2. /\ book' \in [Calls -> ResvState] /\ allocated' \in Nat
      /\ \A d \in Calls : d # c => book'[d] = book[d]
      /\ book'[c] = IF book[c] = "active" THEN "released" ELSE book[c]
    BY <1>1, ReleaseTyped DEF IInv
<1>3. /\ faults' \in [FaultKinds -> Nat] /\ faults'["raise"] <= Faults["raise"] /\ ~NoRaise'
    BY <1>1, SpendTyped DEF IInv
<1>4. Typed'
    BY <1>1, <1>2, <1>3 DEF IInv, Typed, TypeOK, Steps
<1>5. \A d \in Calls, k \in {1, 2} : Paid(d, k)' = Paid(d, k)
    BY <1>1, SameRows
<1>6. OrderAt(c)' /\ VerifiedAt(c)'
    BY <1>1, <1>2, <1>5 DEF OrderAt, VerifiedAt
<1> QED
    BY <1>1, <1>2, <1>3, <1>4, <1>5, <1>6, OneCall

LEMMA SettleStep ==
    ASSUME IInv, NEW c \in Calls, settle_and_return(c)
    PROVE  IInv'
<1>1. /\ pc \in [Calls -> Steps] /\ book \in [Calls -> ResvState] /\ pc[c] = "cosigned"
      /\ pc' = [pc EXCEPT ![c] = "paid"]
      /\ UNCHANGED <<bundle, rows, copies, faults, allocated>>
      /\ OrderAt(c) /\ VerifiedAt(c) /\ (NoRaise => OnceAt(c))
    BY DEF IInv, Typed, TypeOK, settle_and_return, settle, Goto
<1>2. book' = [book EXCEPT ![c] = "settled"]
    BY <1>1 DEF settle_and_return, settle, OrderAt
<1>3. Typed'
    BY <1>1, <1>2 DEF IInv, Typed, TypeOK, Steps, ResvState
<1>4. \A d \in Calls, k \in {1, 2} : Paid(d, k)' = Paid(d, k)
    BY <1>1, SameRows
<1>5. OrderAt(c)' /\ VerifiedAt(c)' /\ (NoRaise' => NoRaise /\ OnceAt(c)')
    BY <1>1, <1>2, <1>4 DEF OrderAt, VerifiedAt, OnceAt, PaidAny, NoRaise
<1> QED
    BY <1>1, <1>2, <1>3, <1>4, <1>5, OneCall

(* Another path ends the reservation of a waiting call.                     *)
LEMMA ElsewhereStep ==
    ASSUME IInv, NEW c \in Calls, elsewhere(c)
    PROVE  IInv'
<1>1. /\ pc[c] = "waiting" /\ Spend("elsewhere") /\ book[c] = "active"
      /\ book \in [Calls -> ResvState] /\ rows \subseteq Entry
      /\ UNCHANGED <<pc, bundle, copies>> /\ "elsewhere" \in FaultKinds
      /\ OrderAt(c) /\ VerifiedAt(c) /\ (NoRaise => OnceAt(c))
    BY DEF IInv, Typed, TypeOK, elsewhere, EndElsewhere, FaultKinds
<1>2. /\ faults' \in [FaultKinds -> Nat] /\ faults'["raise"] <= Faults["raise"]
      /\ NoRaise' => NoRaise
    BY <1>1, SpendTyped DEF IInv
<1>3. CASE release(c) /\ UNCHANGED rows
    <2>1. /\ book' \in [Calls -> ResvState] /\ allocated' \in Nat
          /\ \A d \in Calls : d # c => book'[d] = book[d]
          /\ book'[c] = "released"
        BY <1>1, <1>3, ReleaseTyped DEF IInv
    <2>2. Typed'
        BY <1>1, <1>2, <1>3, <2>1 DEF IInv, Typed, TypeOK
    <2>3. \A d \in Calls, k \in {1, 2} : Paid(d, k)' = Paid(d, k)
        BY <1>3, SameRows
    <2>4. OrderAt(c)' /\ VerifiedAt(c)' /\ (NoRaise' => OnceAt(c)')
        BY <1>1, <2>1, <2>3 DEF OrderAt, VerifiedAt, OnceAt, PaidAny
    <2> QED
        BY <1>1, <1>2, <2>1, <2>2, <2>3, <2>4, OneCall
<1>4. CASE settle(c) /\ rows' = rows \cup {Payment(c, 2, Other, TRUE)}
    <2>1. book' = [book EXCEPT ![c] = "settled"] /\ allocated' = allocated
        BY <1>1, <1>4 DEF settle
    <2>2. rows' \subseteq Entry
        BY <1>1, <1>4, PaymentTyped
    <2>3. Typed'
        BY <1>1, <1>2, <2>1, <2>2 DEF IInv, Typed, TypeOK, ResvState
    <2>4. /\ Paid(c, 1)' = Paid(c, 1)
          /\ \A d \in Calls : d # c => Paid(d, 1)' = Paid(d, 1) /\ Paid(d, 2)' = Paid(d, 2)
        BY <1>4 DEF Paid, Payment
    <2>5. OrderAt(c)' /\ VerifiedAt(c)' /\ (NoRaise' => OnceAt(c)')
        BY <1>1, <2>1, <2>4 DEF OrderAt, VerifiedAt, OnceAt, PaidAny
    <2> QED
        BY <1>1, <1>2, <2>1, <2>3, <2>4, <2>5, OneCall
<1> QED
    BY <1>3, <1>4 DEF elsewhere, EndElsewhere

-----------------------------------------------------------------------------
(* The other steps pay nothing.                                             *)
LEMMA QuietStep ==
    ASSUME IInv, Typed', UNCHANGED <<pc, bundle, book, faults>>,
           \A d \in Calls, k \in {1, 2} : Paid(d, k)' = Paid(d, k)
    PROVE  IInv'
<1>1. ASSUME NEW d \in Calls
      PROVE  OrderAt(d)' /\ VerifiedAt(d)' /\ (NoRaise' => OnceAt(d)')
    <2>1. OrderAt(d) /\ VerifiedAt(d) /\ (NoRaise => OnceAt(d))
        BY DEF IInv
    <2> QED
        BY <2>1 DEF OrderAt, VerifiedAt, OnceAt, PaidAny, NoRaise
<1> QED
    BY <1>1 DEF IInv

LEMMA EarnStep ==
    ASSUME IInv, NEW i \in Incomes, earn(i)
    PROVE  IInv'
<1> DEFINE e == [id |-> <<i, 0>>, from |-> Other, to |-> Me,
                 amount |-> IncomeOf[i], settled |-> TRUE]
<1>1. e \in Entry
    <2>1. <<i, 0>> \in EntryIds
        BY DEF EntryIds
    <2>2. IncomeOf[i] \in Nat
        OBVIOUS
    <2> QED
        BY <2>1, <2>2 DEF Entry
<1>2. rows' = rows \cup {e}
    BY DEF earn
<1>3. Typed'
    BY <1>1, <1>2 DEF IInv, Typed, TypeOK, earn
<1>4. e.id = <<i, 0>>
    OBVIOUS
<1> HIDE DEF e
<1>5. \A d \in Calls, k \in {1, 2} : Paid(d, k)' = Paid(d, k)
    BY <1>2, <1>4 DEF Paid
<1> QED
    BY <1>3, <1>5, QuietStep DEF earn

LEMMA ReplayStep ==
    ASSUME IInv, NEW e \in rows, replay(e)
    PROVE  IInv'
<1>1. PICK final \in {e.settled, FALSE} : copies' = copies \cup {[e EXCEPT !.settled = final]}
    BY DEF replay
<1>2. e \in Entry /\ final \in BOOLEAN
    BY <1>1 DEF IInv, Typed, TypeOK, Entry
<1>3. [e EXCEPT !.settled = final] \in Entry
    BY <1>2 DEF Entry
<1>4. Typed'
    BY <1>1, <1>3 DEF IInv, Typed, TypeOK, replay
<1>5. \A d \in Calls, k \in {1, 2} : Paid(d, k)' = Paid(d, k)
    BY SameRows DEF replay
<1> QED
    BY <1>4, <1>5, QuietStep DEF replay

LEMMA CrashStep ==
    ASSUME IInv, crash
    PROVE  IInv'
<1>1. /\ pc \in [Calls -> Steps] /\ "crash" \in FaultKinds
      /\ pc' = [c \in Calls |-> IF pc[c] = "new" THEN "new" ELSE "gone"]
      /\ book' = [c \in Calls |-> "none"] /\ allocated' = 0
      /\ UNCHANGED <<bundle, rows, copies>> /\ Spend("crash")
    BY DEF IInv, Typed, TypeOK, crash, FaultKinds
<1>2. /\ faults' \in [FaultKinds -> Nat] /\ faults'["raise"] <= Faults["raise"]
      /\ NoRaise' => NoRaise
    BY <1>1, SpendTyped DEF IInv
<1>3. Typed'
    BY <1>1, <1>2 DEF IInv, Typed, TypeOK, Steps, ResvState
<1>4. \A d \in Calls, k \in {1, 2} : Paid(d, k)' = Paid(d, k)
    BY <1>1, SameRows
<1>5. ASSUME NEW d \in Calls
      PROVE  OrderAt(d)' /\ VerifiedAt(d)' /\ (NoRaise' => OnceAt(d)')
    <2>1. OrderAt(d) /\ VerifiedAt(d) /\ (NoRaise => OnceAt(d))
        BY DEF IInv
    <2>2. pc'[d] = (IF pc[d] = "new" THEN "new" ELSE "gone") /\ book'[d] = "none"
        BY <1>1
    <2> QED
        BY <1>1, <1>2, <1>4, <2>1, <2>2 DEF OrderAt, VerifiedAt, OnceAt, PaidAny
<1> QED
    BY <1>3, <1>5 DEF IInv

LEMMA StepHolds == IInv /\ [Next]_vars => IInv'
<1> SUFFICES ASSUME IInv, [Next]_vars PROVE IInv'
    OBVIOUS
<1>1. ASSUME NEW c \in Calls, refuse(c) PROVE IInv'
    BY <1>1, RefuseStep
<1>2. ASSUME NEW c \in Calls, reserve_and_post(c) PROVE IInv'
    BY <1>2, ReserveStep
<1>3. ASSUME NEW c \in Calls, Proceed(c) PROVE IInv'
    BY <1>3, GiveUpStep, ResultStep, CosignStep, SettleStep DEF Proceed
<1>4. ASSUME NEW c \in Calls, cosign_raises(c) PROVE IInv'
    BY <1>4, RaiseStep
<1>5. ASSUME NEW c \in Calls, elsewhere(c) PROVE IInv'
    BY <1>5, ElsewhereStep
<1>6. ASSUME NEW i \in Incomes, earn(i) PROVE IInv'
    BY <1>6, EarnStep
<1>7. ASSUME NEW e \in rows, replay(e) PROVE IInv'
    BY <1>7, ReplayStep
<1>8. CASE crash
    BY <1>8, CrashStep
<1>9. ASSUME NEW c \in Calls, escape(c) PROVE IInv'
    BY <1>9, EscapeStep
<1>10. CASE UNCHANGED vars
    <2>1. Typed'
        BY <1>10 DEF vars, IInv, Typed, TypeOK
    <2>2. \A d \in Calls, k \in {1, 2} : Paid(d, k)' = Paid(d, k)
        BY <1>10, SameRows DEF vars
    <2> QED
        BY <1>10, <2>1, <2>2, QuietStep DEF vars
<1> QED
    BY <1>1, <1>2, <1>3, <1>4, <1>5, <1>6, <1>7, <1>8, <1>9, <1>10 DEF Next

(* Concurrent subcontracts over one book, with results that are abandoned,  *)
(* settled elsewhere, delivered again or lost with the process: what is     *)
(* paid is paid once, by one path, never after it was released, to another  *)
(* agent, and for work inside what was delegated and inside the manifest of *)
(* the payer (SubcontractCoordinator.subcontract).                          *)
THEOREM PaymentsAreDue == Spec => []PaidRightly
<1>1. Init => IInv
    BY InitHolds
<1>2. IInv /\ [Next]_vars => IInv'
    BY StepHolds
<1>3. IInv => PaidRightly
    BY PropertyFromInv
<1> QED
    BY <1>1, <1>2, <1>3, PTL DEF Spec

-----------------------------------------------------------------------------
(* Money.                                                                   *)

(* The payments that are final, the incomes, and the holds that no payment  *)
(* has used yet.                                                            *)
PaidBy(k) == {c \in Calls : Paid(c, k)}
EarnedSet == {i \in Incomes : Earned(i)}
Promised == {c \in Calls : book[c] = "active" /\ ~PaidAny(c)}
Charged == In("active") \cup In("settled")

(* What a wallet that shows exactly the rows counts.                        *)
Received == {e \in rows : e.settled /\ e.from # e.to /\ e.to = Me}
Sent == {e \in rows : e.settled /\ e.from # e.to /\ e.from = Me}

IsIncome(e, i) ==
    e = [id |-> <<i, 0>>, from |-> Other, to |-> Me, amount |-> IncomeOf[i], settled |-> TRUE]

(* What the rows may be: an income, a payment by another path, or the entry *)
(* of a call, which is final only when another agent earned it.             *)
RowShape(e) ==
    \/ \E i \in Incomes : IsIncome(e, i)
    \/ \E c \in Calls : e = Payment(c, 2, Other, TRUE)
    \/ \E c \in Calls, to \in Keys : \/ e = Payment(c, 1, to, FALSE)
                                     \/ to # Me /\ e = Payment(c, 1, to, TRUE)

(* A call has no entry before its result, and the one it is about to        *)
(* cosign is the one it verified.                                           *)
RowOfCall(c) ==
    \A e \in rows : e.id = <<c, 1>> =>
        /\ pc[c] \notin {"new", "waiting"}
        /\ pc[c] = "verified" => e = Payment(c, 1, bundle[c].agent, FALSE)

Older(e, r) == e = r \/ e = [r EXCEPT !.settled = FALSE]

(* One row per id, and copies only of what the rows are or were.            *)
RowsInv ==
    /\ IsFiniteSet(rows) /\ IsFiniteSet(copies)
    /\ \A x, y \in rows : x.id = y.id => x = y
    /\ \A e \in copies : \E r \in rows : Older(e, r)
    /\ \A e \in rows : RowShape(e)
    /\ \A c \in Calls : RowOfCall(c)

SumsInv ==
    /\ IsFiniteSet(PaidBy(1)) /\ IsFiniteSet(PaidBy(2)) /\ IsFiniteSet(EarnedSet)
    /\ AmountSum(Received) = IncomeSum(EarnedSet)
    /\ AmountSum(Sent) = BountySum(PaidBy(1)) + BountySum(PaidBy(2))

(* Income covers what was paid together with what is promised.              *)
Covered ==
    BountySum(PaidBy(1)) + BountySum(PaidBy(2)) + BountySum(Promised) <= IncomeSum(EarnedSet)

MInv ==
    /\ IInv
    /\ RowsInv
    /\ SumsInv
    /\ IsFiniteSet(Charged)
    /\ BudgetExact
    /\ Covered

(* One more element, and one less.                                          *)
LEMMA SumAdd ==
    ASSUME NEW S, IsFiniteSet(S), NEW x, x \notin S,
           NEW f \in [S \cup {x} -> Int], NEW g \in [S -> Int], \A y \in S : g[y] = f[y]
    PROVE  SumFunctionOnSet(f, S \cup {x}) = SumFunctionOnSet(g, S) + f[x]
<1> DEFINE T == S \cup {x}
<1>1. IsFiniteSet(T) /\ x \in T /\ T \ {x} = S
    BY FS_AddElement
<1>2. Restrict(f, S) = g
    BY DEF Restrict
<1>3. f \in [T -> Int]
    OBVIOUS
<1> HIDE DEF T
<1>4. SumFunctionOnSet(f, T) = f[x] + SumFunctionOnSet(Restrict(f, T \ {x}), T \ {x})
    BY <1>1, <1>3, SumRemove
<1>5. SumFunctionOnSet(g, S) \in Int /\ f[x] \in Int
    BY <1>1, <1>3, SumIsInt
<1>6. SumFunctionOnSet(f, T) = f[x] + SumFunctionOnSet(g, S)
    BY <1>1, <1>2, <1>4, Zenon
<1>7. SumFunctionOnSet(f, T) = SumFunctionOnSet(g, S) + f[x]
    BY <1>5, <1>6
<1> QED
    BY <1>7, Zenon DEF T

(* Sums over calls, incomes and entries grow and shrink one at a time.      *)
LEMMA BountiesAdd ==
    ASSUME NEW cs \in SUBSET Calls, IsFiniteSet(cs)
    PROVE  /\ BountySum(cs) \in Nat
           /\ \A c \in Calls \ cs : BountySum(cs \cup {c}) = BountySum(cs) + Bounty[c]
<1> DEFINE F(ds) == [c \in ds |-> Bounty[c]]
<1>1. \A ds \in SUBSET Calls :
          F(ds) \in [ds -> Nat] /\ BountySum(ds) = SumFunctionOnSet(F(ds), ds)
    BY DEF BountySum, SumFunction
<1>2. BountySum(cs) \in Nat
    <2> HIDE DEF F
    <2> QED BY <1>1, SumIsNat
<1>3. ASSUME NEW c \in Calls \ cs PROVE BountySum(cs \cup {c}) = BountySum(cs) + Bounty[c]
    <2>1. cs \cup {c} \in SUBSET Calls
        OBVIOUS
    <2>2. /\ F(cs) \in [cs -> Int] /\ F(cs \cup {c}) \in [cs \cup {c} -> Int]
          /\ \A d \in cs : F(cs)[d] = F(cs \cup {c})[d]
          /\ F(cs \cup {c})[c] = Bounty[c]
        OBVIOUS
    <2> HIDE DEF F
    <2>3. SumFunctionOnSet(F(cs \cup {c}), cs \cup {c})
            = SumFunctionOnSet(F(cs), cs) + F(cs \cup {c})[c]
        BY <2>2, SumAdd
    <2> QED
        BY <1>1, <2>1, <2>2, <2>3
<1> QED
    BY <1>2, <1>3

LEMMA BountiesTake ==
    ASSUME NEW cs \in SUBSET Calls, IsFiniteSet(cs), NEW c \in cs
    PROVE  /\ IsFiniteSet(cs \ {c})
           /\ BountySum(cs) = BountySum(cs \ {c}) + Bounty[c]
<1> DEFINE ds == cs \ {c}
<1>1. IsFiniteSet(ds)
    BY FS_RemoveElement
<1>2. ds \in SUBSET Calls /\ c \in Calls \ ds /\ ds \cup {c} = cs
    OBVIOUS
<1> HIDE DEF ds
<1>3. BountySum(ds \cup {c}) = BountySum(ds) + Bounty[c]
    BY <1>1, <1>2, BountiesAdd
<1> QED
    BY <1>1, <1>2, <1>3 DEF ds

LEMMA BountiesPart ==
    ASSUME NEW cs \in SUBSET Calls, IsFiniteSet(cs), NEW ds \in SUBSET cs
    PROVE  /\ IsFiniteSet(ds) /\ BountySum(ds) \in Nat /\ BountySum(cs) \in Nat
           /\ BountySum(ds) <= BountySum(cs)
<1> DEFINE f == [c \in cs |-> Bounty[c]]
           g == [c \in ds |-> Bounty[c]]
<1>1. IsFiniteSet(ds)
    BY FS_Subset
<1>2. f \in [cs -> Nat] /\ DOMAIN f = cs /\ DOMAIN g = ds /\ Restrict(f, ds) = g
    BY DEF Restrict
<1> HIDE DEF f, g
<1>3. SumFunctionOnSet(g, ds) <= SumFunctionOnSet(f, cs)
    BY <1>2, SumOfPart
<1>4. BountySum(ds) <= BountySum(cs)
    BY <1>2, <1>3 DEF f, g, BountySum, SumFunction
<1> QED
    BY <1>1, <1>4, BountiesAdd

LEMMA IncomesAdd ==
    ASSUME NEW is \in SUBSET Incomes, IsFiniteSet(is)
    PROVE  /\ IncomeSum(is) \in Nat
           /\ \A i \in Incomes \ is : IncomeSum(is \cup {i}) = IncomeSum(is) + IncomeOf[i]
<1> DEFINE F(js) == [i \in js |-> IncomeOf[i]]
<1>1. \A js \in SUBSET Incomes :
          F(js) \in [js -> Nat] /\ IncomeSum(js) = SumFunctionOnSet(F(js), js)
    BY DEF IncomeSum, SumFunction
<1>2. IncomeSum(is) \in Nat
    <2> HIDE DEF F
    <2> QED BY <1>1, SumIsNat
<1>3. ASSUME NEW i \in Incomes \ is PROVE IncomeSum(is \cup {i}) = IncomeSum(is) + IncomeOf[i]
    <2>1. is \cup {i} \in SUBSET Incomes
        OBVIOUS
    <2>2. /\ F(is) \in [is -> Int] /\ F(is \cup {i}) \in [is \cup {i} -> Int]
          /\ \A j \in is : F(is)[j] = F(is \cup {i})[j]
          /\ F(is \cup {i})[i] = IncomeOf[i]
        OBVIOUS
    <2> HIDE DEF F
    <2>3. SumFunctionOnSet(F(is \cup {i}), is \cup {i})
            = SumFunctionOnSet(F(is), is) + F(is \cup {i})[i]
        BY <2>2, SumAdd
    <2> QED
        BY <1>1, <2>1, <2>2, <2>3
<1> QED
    BY <1>2, <1>3

LEMMA AmountsAdd ==
    ASSUME NEW es \in SUBSET Entry, IsFiniteSet(es)
    PROVE  /\ AmountSum(es) \in Nat
           /\ \A e \in Entry \ es : AmountSum(es \cup {e}) = AmountSum(es) + e.amount
<1> DEFINE F(xs) == [x \in xs |-> x.amount]
<1>1. \A xs \in SUBSET Entry :
          F(xs) \in [xs -> Nat] /\ AmountSum(xs) = SumFunctionOnSet(F(xs), xs)
    BY DEF AmountSum, SumFunction, Entry
<1>2. AmountSum(es) \in Nat
    <2> HIDE DEF F
    <2> QED BY <1>1, SumIsNat
<1>3. ASSUME NEW e \in Entry \ es PROVE AmountSum(es \cup {e}) = AmountSum(es) + e.amount
    <2>1. es \cup {e} \in SUBSET Entry
        OBVIOUS
    <2>2. /\ F(es) \in [es -> Int] /\ F(es \cup {e}) \in [es \cup {e} -> Int]
          /\ \A x \in es : F(es)[x] = F(es \cup {e})[x]
          /\ F(es \cup {e})[e] = e.amount
        <3>1. F(es) \in [es -> Nat] /\ F(es \cup {e}) \in [es \cup {e} -> Nat]
            BY <1>1, <2>1
        <3> QED BY <3>1
    <2> HIDE DEF F
    <2>3. SumFunctionOnSet(F(es \cup {e}), es \cup {e})
            = SumFunctionOnSet(F(es), es) + F(es \cup {e})[e]
        BY <2>2, SumAdd
    <2> QED
        BY <1>1, <2>1, <2>2, <2>3
<1> QED
    BY <1>2, <1>3

-----------------------------------------------------------------------------
(* The wallet over copies that do not conflict.                             *)

Agreeing(es) == \A x, y \in es : x.id = y.id => x = y \/ x.settled # y.settled

(* The final copy of an id, or the only one.                                *)
Best(es) == {e \in es : e.settled \/ ~\E x \in es : x.id = e.id /\ x.settled}

Chosen(es) == [chosen |-> Best(es), conflicting |-> {}]

LEMMA ChosenReplaced ==
    ASSUME NEW a, NEW b, NEW c
    PROVE  [[chosen |-> a, conflicting |-> b] EXCEPT !.chosen = c]
             = [chosen |-> c, conflicting |-> b]
OBVIOUS

(* Among copies that agree, one step of the wallet's fold keeps the final   *)
(* one of each id.                                                          *)
LEMMA ChooseBest ==
    ASSUME NEW U \in SUBSET Entry, Agreeing(U), NEW T \in SUBSET U, NEW e \in U
    PROVE  Choose(e, Chosen(T)) = Chosen(T \cup {e})
<1> DEFINE w == Chosen(T)
           prev == {x \in w.chosen : x.id = e.id}
<1>0. \A x \in U : x.settled \in BOOLEAN
    BY DEF Entry
<1>1. w.chosen = Best(T) /\ w.conflicting = {}
    BY DEF Chosen
<1>2. prev = {x \in Best(T) : x.id = e.id}
    BY <1>1
<1>3. CASE e \in prev
    <2>1. Choose(e, w) = w
        BY <1>3 DEF Choose
    <2>2. T \cup {e} = T
        BY <1>2, <1>3 DEF Best
    <2> QED BY <2>1, <2>2
<1>4. CASE e \notin prev /\ \A x \in prev : e.settled /\ ~x.settled
    <2>1. Choose(e, w) = [w EXCEPT !.chosen = (@ \ prev) \cup {e}]
        BY <1>1, <1>4 DEF Choose
    <2>2. [w EXCEPT !.chosen = (@ \ prev) \cup {e}]
            = [chosen |-> (Best(T) \ prev) \cup {e}, conflicting |-> {}]
        <3>1. w = [chosen |-> Best(T), conflicting |-> {}]
            BY DEF Chosen
        <3>2. [w EXCEPT !.chosen = (@ \ prev) \cup {e}]
                = [w EXCEPT !.chosen = (Best(T) \ prev) \cup {e}]
            BY <1>1
        <3>3. [w EXCEPT !.chosen = (Best(T) \ prev) \cup {e}]
                = [chosen |-> (Best(T) \ prev) \cup {e}, conflicting |-> {}]
            <4> HIDE DEF prev, w
            <4> QED BY <3>1, ChosenReplaced, Zenon
        <3> QED BY <3>2, <3>3
    <2>3. (Best(T) \ prev) \cup {e} = Best(T \cup {e})
        <3>1. CASE e.settled
            <4>1. ASSUME NEW x \in Best(T) \ prev PROVE x \in Best(T \cup {e})
                BY <4>1, <1>2 DEF Best
            <4>2. e \in Best(T \cup {e})
                BY <3>1 DEF Best
            <4>3. ASSUME NEW x \in Best(T \cup {e}), x # e PROVE x \in Best(T) \ prev
                <5>1. x \in T /\ x \in Best(T)
                    BY <4>3 DEF Best
                <5>2. x \notin prev
                    <6> SUFFICES ASSUME x \in prev PROVE FALSE
                        OBVIOUS
                    <6>1. ~x.settled /\ x.id = e.id
                        BY <1>2, <1>4
                    <6> QED BY <6>1, <3>1, <4>3 DEF Best
                <5> QED BY <5>1, <5>2
            <4> QED BY <4>1, <4>2, <4>3
        <3>2. CASE ~e.settled
            <4>1. prev = {}
                BY <1>4, <3>2
            <4>2. ~\E x \in T : x.id = e.id
                BY <4>1, <1>2 DEF Best
            <4> QED BY <4>1, <4>2, <3>2 DEF Best
        <3> QED BY <3>1, <3>2
    <2> QED BY <2>1, <2>2, <2>3 DEF Chosen
<1>5. CASE e \notin prev /\ ~(\A x \in prev : e.settled /\ ~x.settled)
    <2>1. PICK y \in prev : ~(e.settled /\ ~y.settled)
        BY <1>5
    <2>2. y \in T /\ y \in U /\ y.id = e.id /\ y # e
        BY <2>1, <1>2, <1>5 DEF Best
    <2>3. y.settled # e.settled
        BY <2>2 DEF Agreeing
    <2>4. y.settled /\ ~e.settled
        BY <2>1, <2>2, <2>3, <1>0
    <2>5. \A x \in prev : x.settled /\ ~e.settled
        BY <2>2, <2>4, <1>2 DEF Best
    <2>6. Choose(e, w) = w
        BY <1>1, <1>5, <2>5 DEF Choose
    <2>7. Best(T \cup {e}) = Best(T)
        <3>1. e \notin Best(T \cup {e})
            BY <2>2, <2>4 DEF Best
        <3>2. e \notin Best(T)
            BY <1>2, <1>5
        <3>3. \A x \in T : x # e => (x \in Best(T \cup {e}) <=> x \in Best(T))
            BY <2>4 DEF Best
        <3> QED BY <3>1, <3>2, <3>3 DEF Best
    <2> QED BY <2>6, <2>7 DEF Chosen
<1> QED
    BY <1>3, <1>4, <1>5

WalletStep(base, g, s) == IF s = {} THEN base ELSE Choose(PickOf(s), g[s \ {PickOf(s)}])
IsWallet(base, S, g) == g = [s \in SUBSET S |-> WalletStep(base, g, s)]

LEMMA WalletUnfold ==
    ASSUME NEW base, NEW S
    PROVE  FoldSet(Choose, base, S) = (CHOOSE g : IsWallet(base, S, g))[S]
BY Zenon DEF FoldSet, MapThenFoldSet, IsWallet, WalletStep, PickOf

(* However the copies are ordered, the wallet has chosen the best of each.  *)
LEMMA WalletChooses ==
    ASSUME NEW U \in SUBSET Entry, Agreeing(U), NEW T \in SUBSET U, NEW S \in SUBSET U,
           IsFiniteSet(S)
    PROVE  FoldSet(Choose, Chosen(T), S) = Chosen(T \cup S)
<1> DEFINE base == Chosen(T)
           closed == [s \in SUBSET S |-> Chosen(T \cup s)]
           g == CHOOSE h : IsWallet(base, S, h)
<1>1. IsWallet(base, S, closed)
    <2> SUFFICES ASSUME NEW s \in SUBSET S PROVE closed[s] = WalletStep(base, closed, s)
        BY DEF IsWallet
    <2>1. CASE s = {}
        BY <2>1 DEF WalletStep
    <2>2. CASE s # {}
        <3>1. PickOf(s) \in s /\ PickOf(s) \in U
            BY <2>2, PickIn
        <3>2. PICK x : x = PickOf(s)
            OBVIOUS
        <3>3. s \ {x} \in SUBSET S /\ T \cup (s \ {x}) \in SUBSET U
            OBVIOUS
        <3>4. (T \cup (s \ {x})) \cup {x} = T \cup s
            BY <3>1, <3>2
        <3>5. Choose(x, Chosen(T \cup (s \ {x}))) = Chosen((T \cup (s \ {x})) \cup {x})
            BY <3>1, <3>2, <3>3, ChooseBest
        <3> QED
            BY <2>2, <3>2, <3>3, <3>4, <3>5 DEF WalletStep
    <2> QED BY <2>1, <2>2
<1>2. IsWallet(base, S, g)
    <2> HIDE DEF closed, base
    <2> QED BY <1>1
<1> HIDE DEF g
<1>3. \A s \in SUBSET S : g[s] = WalletStep(base, g, s)
    BY <1>2 DEF IsWallet
<1> DEFINE Good == {k \in Nat : \A s \in SUBSET S : Cardinality(s) = k => g[s] = Chosen(T \cup s)}
<1>4. \A s \in SUBSET S : IsFiniteSet(s) /\ Cardinality(s) \in Nat
    BY SmallerRest
<1>5. 0 \in Good
    <2> SUFFICES ASSUME NEW s \in SUBSET S, Cardinality(s) = 0 PROVE g[s] = Chosen(T \cup s)
        OBVIOUS
    <2>1. s = {}
        BY <1>4, FS_EmptySet
    <2> QED BY <2>1, <1>3 DEF WalletStep
<1>6. ASSUME NEW k \in Good PROVE k + 1 \in Good
    <2> SUFFICES ASSUME NEW s \in SUBSET S, Cardinality(s) = k + 1 PROVE g[s] = Chosen(T \cup s)
        OBVIOUS
    <2>1. s # {}
        <3>1. Cardinality({}) = 0 /\ k \in Nat
            BY <1>6, FS_EmptySet
        <3>2. k + 1 # 0
            BY <3>1
        <3> QED BY <3>1, <3>2, Zenon
    <2>2. PICK x : x = PickOf(s)
        OBVIOUS
    <2>3. x \in s /\ x \in U
        BY <2>1, <2>2, PickIn
    <2>4. s \ {x} \in SUBSET S /\ Cardinality(s \ {x}) = k
        BY <2>3, SmallerRest
    <2>5. g[s \ {x}] = Chosen(T \cup (s \ {x}))
        BY <1>6, <2>4
    <2>6. T \cup (s \ {x}) \in SUBSET U /\ (T \cup (s \ {x})) \cup {x} = T \cup s
        BY <2>3
    <2>7. Choose(x, Chosen(T \cup (s \ {x}))) = Chosen((T \cup (s \ {x})) \cup {x})
        BY <2>3, <2>6, ChooseBest
    <2> QED
        BY <1>3, <2>1, <2>2, <2>5, <2>6, <2>7 DEF WalletStep
<1>7. Good = Nat
    <2> Good \in SUBSET Nat
        OBVIOUS
    <2> HIDE DEF Good
    <2> QED BY <1>5, <1>6, NatSetInduction
<1>8. g[S] = Chosen(T \cup S)
    BY <1>4, <1>7
<1> QED
    BY <1>8, WalletUnfold DEF g

(* A copy has the id of its row and is final only if the row is.            *)
LEMMA OlderFacts ==
    ASSUME NEW r \in Entry, NEW e, Older(e, r)
    PROVE  /\ e \in Entry /\ e.id = r.id
           /\ e = r \/ (r.settled /\ ~e.settled)
<1>1. CASE e = r
    BY <1>1 DEF Entry
<1>2. CASE e = [r EXCEPT !.settled = FALSE]
    <2>1. e \in Entry /\ e.id = r.id /\ e.settled = FALSE
        BY <1>2 DEF Entry
    <2>2. r.settled \in BOOLEAN
        BY DEF Entry
    <2>3. CASE r.settled = FALSE
        <3>1. e = r
            BY <1>2, <2>3 DEF Entry
        <3> QED BY <2>1, <3>1
    <2> QED BY <2>1, <2>2, <2>3
<1> QED
    BY <1>1, <1>2 DEF Older

(* The wallet shows the rows, in whatever order it reads the copies.        *)
LEMMA WalletIsRows ==
    ASSUME MInv
    PROVE  /\ Wallet(rows, copies) = [chosen |-> rows, conflicting |-> {}]
           /\ Wallet(copies, rows) = [chosen |-> rows, conflicting |-> {}]
<1> DEFINE U == rows \cup copies
<1>1. rows \subseteq Entry /\ RowsInv
    BY DEF MInv, IInv, Typed, TypeOK
<1>2. \A x \in U : \E r \in rows : Older(x, r)
    BY <1>1 DEF RowsInv, Older
<1>3. \A x \in U : \E r \in rows : x.id = r.id /\ (x = r \/ (r.settled /\ ~x.settled))
    BY <1>1, <1>2, OlderFacts
<1>4. U \in SUBSET Entry
    BY <1>1, <1>2, OlderFacts
<1>5. \A x, y \in rows : x.id = y.id => x = y
    BY <1>1 DEF RowsInv
<1>6. Agreeing(U)
    <2> SUFFICES ASSUME NEW x \in U, NEW y \in U, x.id = y.id, x # y
                 PROVE  x.settled # y.settled
        BY DEF Agreeing
    <2>0. x.settled \in BOOLEAN /\ y.settled \in BOOLEAN
        BY <1>4 DEF Entry
    <2>1. PICK r \in rows : x.id = r.id /\ (x = r \/ (r.settled /\ ~x.settled))
        BY <1>3
    <2>2. PICK q \in rows : y.id = q.id /\ (y = q \/ (q.settled /\ ~y.settled))
        BY <1>3
    <2>3. r = q
        BY <1>5, <2>1, <2>2
    <2>4. x = r \/ y = r
        <3> SUFFICES ASSUME x # r, y # r PROVE FALSE
            OBVIOUS
        <3>1. x = [r EXCEPT !.settled = FALSE] /\ y = [r EXCEPT !.settled = FALSE]
            <4>1. PICK r1 \in rows : Older(x, r1)
                BY <1>2
            <4>2. PICK r2 \in rows : Older(y, r2)
                BY <1>2
            <4>3. r1 = r /\ r2 = r
                BY <4>1, <4>2, <2>1, <2>2, <2>3, <1>1, <1>5, OlderFacts
            <4> QED BY <4>1, <4>2, <4>3 DEF Older
        <3> QED BY <3>1
    <2> QED BY <2>0, <2>1, <2>2, <2>3, <2>4
<1>7. Best(U) = rows
    <2>1. ASSUME NEW e \in rows PROVE e \in Best(U)
        <3> SUFFICES ASSUME ~e.settled, NEW x \in U, x.id = e.id, x.settled PROVE FALSE
            BY DEF Best
        <3>1. PICK r \in rows : x.id = r.id /\ (x = r \/ (r.settled /\ ~x.settled))
            BY <1>3
        <3> QED BY <3>1, <1>5
    <2>2. ASSUME NEW e \in Best(U) PROVE e \in rows
        <3>1. PICK r \in rows : e.id = r.id /\ (e = r \/ (r.settled /\ ~e.settled))
            BY <1>3, <2>2 DEF Best
        <3> QED BY <3>1, <2>2 DEF Best
    <2> QED BY <2>1, <2>2
<1>8. Chosen({}) = [chosen |-> {}, conflicting |-> {}]
    BY DEF Chosen, Best
<1>9. IsFiniteSet(rows) /\ IsFiniteSet(copies) /\ rows \in SUBSET U /\ copies \in SUBSET U
      /\ {} \in SUBSET U /\ {} \cup rows = rows /\ {} \cup copies = copies
      /\ rows \cup copies = U /\ copies \cup rows = U
    BY <1>1 DEF RowsInv
<1> HIDE DEF U
<1>10. Wallet(rows, copies) = Chosen(U)
    <2>1. FoldSet(Choose, Chosen({}), rows) = Chosen(rows)
        BY <1>4, <1>6, <1>9, WalletChooses
    <2>2. FoldSet(Choose, Chosen(rows), copies) = Chosen(U)
        BY <1>4, <1>6, <1>9, WalletChooses
    <2> QED BY <1>8, <2>1, <2>2 DEF Wallet
<1>11. Wallet(copies, rows) = Chosen(U)
    <2>1. FoldSet(Choose, Chosen({}), copies) = Chosen(copies)
        BY <1>4, <1>6, <1>9, WalletChooses
    <2>2. FoldSet(Choose, Chosen(copies), rows) = Chosen(U)
        BY <1>4, <1>6, <1>9, WalletChooses
    <2> QED BY <1>8, <2>1, <2>2 DEF Wallet
<1> QED
    BY <1>7, <1>10, <1>11 DEF Chosen

(* A wallet that shows the rows has the balance they say.                   *)
LEMMA BalanceOfRows ==
    ASSUME NEW w, w = [chosen |-> rows, conflicting |-> {}]
    PROVE  net_balance(Me, w) = AmountSum(Received) - AmountSum(Sent)
<1> DEFINE counted == {e \in w.chosen : e.settled /\ e.from # e.to}
<1>1. {e \in counted : e.to = Me} = Received /\ {e \in counted : e.from = Me} = Sent
    BY DEF Received, Sent
<1> HIDE DEF counted
<1> QED
    BY <1>1 DEF net_balance, counted

(* The sums of a state of the invariant are numbers.                        *)
LEMMA Totals ==
    ASSUME MInv
    PROVE  /\ PaidBy(1) \in SUBSET Calls /\ PaidBy(2) \in SUBSET Calls
           /\ Charged \in SUBSET Calls /\ Promised \in SUBSET In("active")
           /\ In("active") \in SUBSET Charged
           /\ IsFiniteSet(PaidBy(1)) /\ IsFiniteSet(PaidBy(2)) /\ IsFiniteSet(Charged)
           /\ IsFiniteSet(In("active")) /\ IsFiniteSet(Promised)
           /\ EarnedSet \in SUBSET Incomes /\ IsFiniteSet(EarnedSet)
           /\ BountySum(PaidBy(1)) \in Nat /\ BountySum(PaidBy(2)) \in Nat
           /\ BountySum(Charged) \in Nat /\ BountySum(Promised) \in Nat
           /\ BountySum(In("active")) \in Nat
           /\ BountySum(Promised) <= BountySum(In("active"))
           /\ IncomeSum(EarnedSet) \in Nat
           /\ Balance = IncomeSum(EarnedSet) - BountySum(PaidBy(1)) - BountySum(PaidBy(2))
<1>1. /\ PaidBy(1) \in SUBSET Calls /\ PaidBy(2) \in SUBSET Calls
      /\ Charged \in SUBSET Calls /\ Promised \in SUBSET In("active")
      /\ In("active") \in SUBSET Charged /\ EarnedSet \in SUBSET Incomes
      /\ In("active") \in SUBSET Calls /\ Promised \in SUBSET Charged
    BY DEF PaidBy, Charged, Promised, In, EarnedSet
<1>2. /\ IsFiniteSet(PaidBy(1)) /\ IsFiniteSet(PaidBy(2)) /\ IsFiniteSet(Charged)
      /\ IsFiniteSet(EarnedSet)
    BY DEF MInv, SumsInv
<1>3. IsFiniteSet(In("active")) /\ IsFiniteSet(Promised)
    BY <1>1, <1>2, BountiesPart
<1>4. /\ BountySum(PaidBy(1)) \in Nat /\ BountySum(PaidBy(2)) \in Nat
      /\ BountySum(Charged) \in Nat /\ BountySum(In("active")) \in Nat
    BY <1>1, <1>2, <1>3, BountiesAdd
<1>5. BountySum(Promised) \in Nat /\ BountySum(Promised) <= BountySum(In("active"))
    BY <1>1, <1>3, BountiesPart
<1>6. IncomeSum(EarnedSet) \in Nat
    BY <1>1, <1>2, IncomesAdd
<1>7. Balance = AmountSum(Received) - AmountSum(Sent)
    BY WalletIsRows, BalanceOfRows DEF Balance
<1>8. Balance = IncomeSum(EarnedSet) - BountySum(PaidBy(1)) - BountySum(PaidBy(2))
    BY <1>4, <1>6, <1>7 DEF MInv, SumsInv
<1> QED
    BY <1>1, <1>2, <1>3, <1>4, <1>5, <1>6, <1>8

(* The invariant gives the property.                                        *)
LEMMA MoneyFromInv == MInv => MoneyExact
<1> SUFFICES ASSUME MInv PROVE MoneyExact
    OBVIOUS
<1>1. TypeOK
    BY DEF MInv, IInv, Typed
<1>2. NeverInDebt
    BY Totals DEF MInv, Covered, NeverInDebt
<1>3. WalletExact
    <2> SUFFICES ASSUME NEW w \in {Wallet(rows, copies), Wallet(copies, rows)}
                 PROVE  net_balance(Me, w) = IncomeSum(EarnedSet) - BountySum(PaidBy(1))
                                               - BountySum(PaidBy(2))
        BY DEF WalletExact, EarnedSet, PaidBy
    <2>1. net_balance(Me, w) = AmountSum(Received) - AmountSum(Sent)
        BY WalletIsRows, BalanceOfRows
    <2> QED
        BY <2>1, Totals DEF MInv, SumsInv
<1>4. BudgetExact
    BY DEF MInv
<1> QED
    BY <1>1, <1>2, <1>3, <1>4 DEF MoneyExact

-----------------------------------------------------------------------------
(* What a step does to the rows.                                            *)

(* The entry of a call is left alone.                                       *)
LEMMA RowOfCallKept ==
    ASSUME RowsInv, NEW c \in Calls,
           \A e \in rows' : e \in rows \/ e.id # <<c, 1>>,
           pc'[c] \in {"new", "waiting"} => pc[c] \in {"new", "waiting"},
           pc'[c] = "verified" => pc[c] = "verified" /\ bundle'[c] = bundle[c]
    PROVE  RowOfCall(c)'
<1>1. RowOfCall(c)
    BY DEF RowsInv
<1> QED
    BY <1>1 DEF RowOfCall

LEMMA SameRowSums ==
    ASSUME MInv, rows' = rows
    PROVE  /\ SumsInv' /\ EarnedSet' = EarnedSet
           /\ PaidBy(1)' = PaidBy(1) /\ PaidBy(2)' = PaidBy(2)
<1>1. /\ EarnedSet' = EarnedSet /\ Received' = Received /\ Sent' = Sent
      /\ PaidBy(1)' = PaidBy(1) /\ PaidBy(2)' = PaidBy(2)
    BY DEF EarnedSet, Earned, PaidBy, Paid, Received, Sent
<1> QED
    BY <1>1 DEF MInv, SumsInv, AmountSum, IncomeSum, BountySum

(* No row changes, and no call goes back before its result.                 *)
LEMMA SameRowsStep ==
    ASSUME MInv, rows' = rows, copies' = copies,
           \A c \in Calls :
               /\ pc'[c] \in {"new", "waiting"} => pc[c] \in {"new", "waiting"}
               /\ pc'[c] = "verified" => pc[c] = "verified" /\ bundle'[c] = bundle[c]
    PROVE  RowsInv'
<1>1. RowsInv
    BY DEF MInv
<1>2. \A c \in Calls : RowOfCall(c)'
    BY <1>1, RowOfCallKept
<1> QED
    BY <1>1, <1>2 DEF RowsInv

(* A row with an id of its own.                                             *)
LEMMA NewRowStep ==
    ASSUME MInv, NEW e, RowShape(e), \A x \in rows : x.id # e.id,
           rows' = rows \cup {e}, copies' = copies,
           \A c \in Calls : RowOfCall(c)'
    PROVE  RowsInv'
<1>1. RowsInv
    BY DEF MInv
<1>2. IsFiniteSet(rows')
    BY <1>1, FS_AddElement DEF RowsInv
<1>3. \A x, y \in rows' : x.id = y.id => x = y
    BY <1>1 DEF RowsInv
<1> QED
    BY <1>1, <1>2, <1>3 DEF RowsInv

-----------------------------------------------------------------------------
(* What a step does to the book.                                            *)

LEMMA SameBook ==
    ASSUME MInv, book' = book, allocated' = allocated
    PROVE  /\ IsFiniteSet(Charged)' /\ BudgetExact'
           /\ Charged' = Charged /\ In("active")' = In("active")
<1>1. Charged' = Charged /\ In("active")' = In("active")
    BY DEF Charged, In
<1> QED
    BY <1>1 DEF MInv, BudgetExact, BountySum, Charged

LEMMA ClampedAtZero ==
    ASSUME NEW x \in Nat
    PROVE  Max({x, 0}) = x
<1>1. \E y \in {x, 0} : \A z \in {x, 0} : y >= z
    OBVIOUS
<1>2. Max({x, 0}) \in {x, 0} /\ \A z \in {x, 0} : Max({x, 0}) >= z
    BY <1>1 DEF Max
<1> QED
    BY <1>2

(* release() gives back exactly what the reservation was charged.           *)
LEMMA ReleaseBooks ==
    ASSUME MInv, NEW c \in Calls, release(c)
    PROVE  /\ IsFiniteSet(Charged)' /\ BudgetExact'
           /\ In("active")' \subseteq In("active")
<1>0. book \in [Calls -> ResvState] /\ allocated \in Nat /\ Bounty[c] \in Nat
    BY DEF MInv, IInv, Typed, TypeOK
<1>1. CASE book[c] # "active"
    <2>1. book' = book /\ allocated' = allocated
        BY <1>1 DEF release
    <2> QED BY <2>1, SameBook
<1>2. CASE book[c] = "active"
    <2>1. book' = [book EXCEPT ![c] = "released"] /\ allocated' = Max({allocated - Bounty[c], 0})
        BY <1>2 DEF release, refund
    <2>2. Charged' = Charged \ {c} /\ c \in Charged /\ In("active")' \subseteq In("active")
        BY <1>0, <1>2, <2>1 DEF Charged, In
    <2>3. /\ IsFiniteSet(Charged \ {c})
          /\ BountySum(Charged) = BountySum(Charged \ {c}) + Bounty[c]
        BY <2>2, Totals, BountiesTake
    <2>4. BountySum(Charged \ {c}) \in Nat
        BY <2>3, Totals, BountiesAdd
    <2>5. allocated = BountySum(Charged) /\ allocated <= Total
        BY DEF MInv, BudgetExact, Charged
    <2>6. allocated - Bounty[c] = BountySum(Charged \ {c})
        BY <1>0, <2>3, <2>4, <2>5
    <2>7. allocated' = BountySum(Charged \ {c})
        BY <2>1, <2>4, <2>6, ClampedAtZero
    <2>8. allocated' <= Total
        BY <1>0, <2>3, <2>4, <2>5, <2>7
    <2>9. BountySum(Charged)' = BountySum(Charged \ {c})
        BY <2>2 DEF BountySum
    <2>10. BudgetExact'
        BY <2>7, <2>8, <2>9 DEF BudgetExact, Charged
    <2> QED BY <2>2, <2>3, <2>10
<1> QED
    BY <1>1, <1>2

(* Fewer promises over the same payments and incomes.                       *)
LEMMA CoverKept ==
    ASSUME MInv, PaidBy(1)' = PaidBy(1), PaidBy(2)' = PaidBy(2), EarnedSet' = EarnedSet,
           In("active")' \subseteq In("active")
    PROVE  Covered'
<1>1. Promised' \subseteq Promised
    BY DEF Promised, PaidAny, PaidBy, In
<1>2. PICK P : P = Promised'
    OBVIOUS
<1>3. BountySum(P) <= BountySum(Promised) /\ BountySum(P) \in Nat
    <2>1. Promised \in SUBSET Calls /\ IsFiniteSet(Promised)
        BY Totals
    <2> QED BY <2>1, <1>1, <1>2, BountiesPart
<1>4. BountySum(PaidBy(1)) + BountySum(PaidBy(2)) + BountySum(P) <= IncomeSum(EarnedSet)
    BY <1>3, Totals DEF MInv, Covered
<1> QED
    BY <1>2, <1>4 DEF Covered, BountySum, IncomeSum

(* A step that touches no row, ends at most holds and charges.              *)
LEMMA BookOnlyStep ==
    ASSUME MInv, IInv', rows' = rows, copies' = copies,
           \A c \in Calls :
               /\ pc'[c] \in {"new", "waiting"} => pc[c] \in {"new", "waiting"}
               /\ pc'[c] = "verified" => pc[c] = "verified" /\ bundle'[c] = bundle[c],
           IsFiniteSet(Charged)', BudgetExact', In("active")' \subseteq In("active")
    PROVE  MInv'
<1>1. RowsInv'
    BY SameRowsStep
<1>2. SumsInv' /\ Covered'
    BY SameRowSums, CoverKept
<1> QED
    BY <1>1, <1>2 DEF MInv

LEMMA GotoOnly ==
    ASSUME Typed, NEW c \in Calls, NEW step \in {"failed", "raised", "paid", "cosigned"}, Goto(c, step)
    PROVE  \A d \in Calls : /\ pc'[d] \in {"new", "waiting", "verified"} => pc'[d] = pc[d]
                            /\ d # c => pc'[d] = pc[d]
BY DEF Typed, TypeOK, Goto

(* Calls that end without a payment.                                        *)
LEMMA RefuseMoney ==
    ASSUME MInv, IInv', NEW c \in Calls, refuse(c)
    PROVE  MInv'
<1>1. /\ Goto(c, "failed") /\ rows' = rows /\ copies' = copies /\ book' = book
      /\ allocated' = allocated /\ bundle' = bundle
    BY DEF refuse
<1>2. \A d \in Calls : pc'[d] \in {"new", "waiting", "verified"} => pc'[d] = pc[d]
    BY <1>1, GotoOnly DEF MInv, IInv
<1>3. IsFiniteSet(Charged)' /\ BudgetExact' /\ In("active")' = In("active")
    BY <1>1, SameBook
<1> QED
    BY <1>1, <1>2, <1>3, BookOnlyStep

LEMMA EscapeMoney ==
    ASSUME MInv, IInv', NEW c \in Calls, escape(c)
    PROVE  MInv'
<1>1. /\ Goto(c, "raised") /\ rows' = rows /\ copies' = copies /\ book' = book
      /\ allocated' = allocated /\ bundle' = bundle
    BY DEF escape
<1>2. \A d \in Calls : pc'[d] \in {"new", "waiting", "verified"} => pc'[d] = pc[d]
    BY <1>1, GotoOnly DEF MInv, IInv
<1>3. IsFiniteSet(Charged)' /\ BudgetExact' /\ In("active")' = In("active")
    BY <1>1, SameBook
<1> QED
    BY <1>1, <1>2, <1>3, BookOnlyStep

LEMMA FailMoney ==
    ASSUME MInv, IInv', NEW c \in Calls, _fail(c), UNCHANGED <<bundle, rows, copies>>
    PROVE  MInv'
<1>1. Goto(c, "failed") /\ release(c)
    BY DEF _fail
<1>2. \A d \in Calls : pc'[d] \in {"new", "waiting", "verified"} => pc'[d] = pc[d]
    BY <1>1, GotoOnly DEF MInv, IInv
<1>3. IsFiniteSet(Charged)' /\ BudgetExact' /\ In("active")' \subseteq In("active")
    BY <1>1, ReleaseBooks
<1> QED
    BY <1>2, <1>3, BookOnlyStep

(* settle() moves a charge from held to paid.                               *)
LEMMA SettleBooks ==
    ASSUME MInv, NEW c \in Calls, settle(c)
    PROVE  /\ IsFiniteSet(Charged)' /\ BudgetExact'
           /\ In("active")' = In("active") \ {c}
<1>0. book \in [Calls -> ResvState]
    BY DEF MInv, IInv, Typed, TypeOK
<1>1. /\ book' = [book EXCEPT ![c] = IF book[c] = "active" THEN "settled" ELSE book[c]]
      /\ allocated' = allocated
    BY DEF settle
<1>2. /\ book'[c] = (IF book[c] = "active" THEN "settled" ELSE book[c])
      /\ \A d \in Calls : d # c => book'[d] = book[d]
    BY <1>0, <1>1
<1>3. Charged' = Charged /\ In("active")' = In("active") \ {c}
    BY <1>2 DEF Charged, In
<1> QED
    BY <1>1, <1>3 DEF MInv, BudgetExact, BountySum, Charged

LEMMA SettleMoney ==
    ASSUME MInv, IInv', NEW c \in Calls, settle_and_return(c)
    PROVE  MInv'
<1>1. /\ Goto(c, "paid") /\ settle(c) /\ rows' = rows /\ copies' = copies /\ bundle' = bundle
    BY DEF settle_and_return
<1>2. \A d \in Calls : pc'[d] \in {"new", "waiting", "verified"} => pc'[d] = pc[d]
    BY <1>1, GotoOnly DEF MInv, IInv
<1>3. IsFiniteSet(Charged)' /\ BudgetExact' /\ In("active")' \subseteq In("active")
    BY <1>1, SettleBooks
<1> QED
    BY <1>1, <1>2, <1>3, BookOnlyStep

(* A restart forgets holds and charges together.                            *)
LEMMA CrashMoney ==
    ASSUME MInv, IInv', crash
    PROVE  MInv'
<1>1. /\ pc' = [c \in Calls |-> IF pc[c] = "new" THEN "new" ELSE "gone"]
      /\ book' = [c \in Calls |-> "none"] /\ allocated' = 0
      /\ rows' = rows /\ copies' = copies /\ bundle' = bundle
    BY DEF crash
<1>2. Charged' = {} /\ In("active")' = {}
    BY <1>1 DEF Charged, In
<1>3. IsFiniteSet({}) /\ BountySum({}) = 0
    <2>1. [c \in {} |-> Bounty[c]] \in [{} -> Int] /\ DOMAIN [c \in {} |-> Bounty[c]] = {}
        OBVIOUS
    <2> QED BY <2>1, SumOfNothing, FS_EmptySet DEF BountySum, SumFunction
<1>4. BudgetExact'
    <2>1. BountySum(Charged)' = 0
        BY <1>2, <1>3 DEF BountySum
    <2> QED BY <1>1, <2>1 DEF BudgetExact, Charged
<1>5. \A c \in Calls : pc'[c] \in {"new", "gone"} /\ (pc'[c] = "new" => pc[c] = "new")
    BY <1>1
<1>6. IsFiniteSet(Charged)'
    BY <1>2, <1>3
<1>7. \A c \in Calls :
               /\ pc'[c] \in {"new", "waiting"} => pc[c] \in {"new", "waiting"}
               /\ pc'[c] = "verified" => pc[c] = "verified" /\ bundle'[c] = bundle[c]
    BY <1>5
<1>8. In("active")' \subseteq In("active")
    BY <1>2
<1> QED
    BY <1>1, <1>4, <1>6, <1>7, <1>8, BookOnlyStep

LEMMA AtMostBoth ==
    ASSUME NEW x \in Int, NEW y \in Int
    PROVE  Min({x, y}) <= x /\ Min({x, y}) <= y /\ Min({x, y}) \in Int
<1>1. \E z \in {x, y} : \A w \in {x, y} : z <= w
    OBVIOUS
<1> QED
    BY <1>1 DEF Min

(* A hold is taken inside what the balance covers beside the other holds.   *)
LEMMA ReserveMoney ==
    ASSUME MInv, IInv', NEW c \in Calls, reserve_and_post(c)
    PROVE  MInv'
<1>0. /\ book \in [Calls -> ResvState] /\ pc \in [Calls -> Steps]
      /\ allocated \in Nat /\ Bounty[c] \in Nat /\ OrderAt(c)
    BY DEF MInv, IInv, Typed, TypeOK
<1>1. /\ pc[c] = "new" /\ can_reserve(c) /\ book[c] = "none" /\ try_allocate(c)
      /\ book' = [book EXCEPT ![c] = "active"] /\ allocated' = allocated + Bounty[c]
      /\ pc' = [pc EXCEPT ![c] = "waiting"] /\ rows' = rows /\ copies' = copies
      /\ bundle' = bundle
    BY DEF reserve_and_post, Startable, Reserve, Goto
<1>2. \A d \in Calls :
               /\ pc'[d] \in {"new", "waiting"} => pc[d] \in {"new", "waiting"}
               /\ pc'[d] = "verified" => pc[d] = "verified" /\ bundle'[d] = bundle[d]
    BY <1>0, <1>1
<1>3. RowsInv'
    BY <1>1, <1>2, SameRowsStep
<1>4. /\ SumsInv' /\ EarnedSet' = EarnedSet
      /\ PaidBy(1)' = PaidBy(1) /\ PaidBy(2)' = PaidBy(2)
    BY <1>1, SameRowSums
<1>5. Charged' = Charged \cup {c} /\ c \notin Charged
    BY <1>0, <1>1 DEF Charged, In
<1>6. IsFiniteSet(Charged') /\ BountySum(Charged \cup {c}) = BountySum(Charged) + Bounty[c]
    BY <1>5, Totals, FS_AddElement, BountiesAdd
<1>7. Bounty[c] <= Total - allocated
    BY <1>1 DEF try_allocate, remaining
<1>8. BudgetExact'
    <2>1. allocated = BountySum(Charged)
        BY DEF MInv, BudgetExact, Charged
    <2>2. BountySum(Charged)' = BountySum(Charged \cup {c})
        BY <1>5 DEF BountySum
    <2>3. allocated' <= Total
        BY <1>0, <1>1, <1>7
    <2> QED BY <1>1, <1>6, <2>1, <2>2, <2>3 DEF BudgetExact, Charged
<1>9. Promised' = Promised \cup {c} /\ c \notin Promised
    <2>1. ~Paid(c, 1) /\ ~Paid(c, 2)
        BY <1>0, <1>1 DEF OrderAt
    <2>2. \A d, k : Paid(d, k)' = Paid(d, k)
        BY <1>1, SameRows
    <2> QED BY <1>0, <1>1, <2>1, <2>2 DEF Promised, PaidAny
<1>10. BountySum(Promised \cup {c}) = BountySum(Promised) + Bounty[c]
    <2>1. Promised \in SUBSET Calls
        BY DEF Promised
    <2> QED BY <1>9, <2>1, Totals, BountiesAdd
<1>11. Bounty[c] <= Balance - BountySum(In("active"))
    <2>1. Balance - BountySum(In("active")) \in Int /\ Total - allocated \in Int
        BY <1>0, Totals
    <2> DEFINE x == Balance - BountySum(In("active"))
               y == Total - allocated
    <2>2. Bounty[c] <= Min({x, y})
        BY <1>1 DEF can_reserve, available, remaining
    <2> HIDE DEF x, y
    <2>3. x \in Int /\ y \in Int
        BY <2>1 DEF x, y
    <2>4. Min({x, y}) <= x /\ Min({x, y}) \in Int
        BY <2>3, AtMostBoth
    <2>5. Bounty[c] <= x
        BY <1>0, <2>2, <2>3, <2>4
    <2> QED BY <2>5 DEF x
<1>12. BountySum(PaidBy(1)) + BountySum(PaidBy(2)) + BountySum(Promised \cup {c})
         <= IncomeSum(EarnedSet)
    BY <1>0, <1>10, <1>11, Totals
<1>13. Covered'
    <2>1. BountySum(Promised)' = BountySum(Promised \cup {c})
        BY <1>9 DEF BountySum
    <2> QED BY <1>4, <1>12, <2>1 DEF Covered, BountySum, IncomeSum
<1> QED
    BY <1>3, <1>4, <1>6, <1>8, <1>13 DEF MInv

(* Entries that share a call or an income share an id, and no others do.    *)
LEMMA IdsDiffer ==
    ASSUME NEW c, NEW d, NEW i
    PROVE  /\ <<c, 1>> # <<d, 2>> /\ <<c, 1>> # <<i, 0>> /\ <<c, 2>> # <<i, 0>>
           /\ <<c, 1>> = <<d, 1>> => c = d
           /\ <<c, 2>> = <<d, 2>> => c = d
OBVIOUS

(* The result brings an entry that counts for nothing until it is cosigned. *)
LEMMA ResultMoney ==
    ASSUME MInv, IInv', NEW c \in Calls, NEW b \in Bundles, result_arrives(c, b)
    PROVE  MInv'
<1>0. /\ book \in [Calls -> ResvState] /\ pc \in [Calls -> Steps] /\ Typed
      /\ bundle \in [Calls -> Bundles \cup {NoBundle}] /\ RowsInv
    BY DEF MInv, IInv, Typed, TypeOK
<1>1. PICK e : e = Payment(c, 1, b.agent, FALSE)
    OBVIOUS
<1>2. pc[c] = "waiting" /\ rows' = rows \cup {e} /\ copies' = copies
    BY <1>1 DEF result_arrives
<1>3. /\ e.id = <<c, 1>> /\ e.settled = FALSE /\ b.agent \in Keys
    <2>1. e.id = <<c, 1>> /\ e.settled = FALSE
        BY <1>1 DEF Payment
    <2> QED BY <2>1 DEF Bundle
<1>4. RowShape(e)
    BY <1>1, <1>3 DEF RowShape
<1>5. \A x \in rows : x.id # e.id
    BY <1>0, <1>2, <1>3 DEF RowsInv, RowOfCall
<1>6. /\ EarnedSet' = EarnedSet /\ Received' = Received /\ Sent' = Sent
      /\ PaidBy(1)' = PaidBy(1) /\ PaidBy(2)' = PaidBy(2)
    <2>1. \A i : e.id # <<i, 0>>
        BY <1>3
    <2>2. EarnedSet' = EarnedSet
        BY <1>2, <2>1 DEF EarnedSet, Earned
    <2>3. Received' = Received /\ Sent' = Sent
        BY <1>2, <1>3 DEF Received, Sent
    <2>4. PaidBy(1)' = PaidBy(1) /\ PaidBy(2)' = PaidBy(2)
        BY <1>2, <1>3 DEF PaidBy, Paid
    <2> QED BY <2>2, <2>3, <2>4
<1>7. SumsInv'
    BY <1>6 DEF MInv, SumsInv, AmountSum, IncomeSum, BountySum
<1>8. /\ IsFiniteSet(Charged)' /\ BudgetExact' /\ In("active")' \subseteq In("active")
    BY SameBook, ReleaseBooks DEF result_arrives, _fail
<1>9. Covered'
    BY <1>6, <1>8, CoverKept
<1>10. pc'[c] \in {"failed", "verified"} /\ (pc'[c] = "verified" => bundle'[c] = b)
    BY <1>0 DEF result_arrives, _fail, Goto
<1>11. \A d \in Calls : d # c => pc'[d] = pc[d] /\ bundle'[d] = bundle[d]
    BY <1>0 DEF result_arrives, _fail, Goto
<1>12. ASSUME NEW d \in Calls PROVE RowOfCall(d)'
    <2>1. CASE d = c
        <3>1. \A x \in rows' : x.id = <<c, 1>> => x = e
            BY <1>2, <1>3, <1>5
        <3> QED BY <2>1, <3>1, <1>1, <1>10 DEF RowOfCall
    <2>2. CASE d # c
        <3>1. e.id # <<d, 1>>
            BY <1>3, <2>2, IdsDiffer
        <3> QED BY <1>0, <1>2, <1>11, <2>2, <3>1, RowOfCallKept
    <2> QED BY <2>1, <2>2
<1>13. RowsInv'
    BY <1>2, <1>4, <1>5, <1>12, NewRowStep
<1> QED
    BY <1>7, <1>8, <1>9, <1>13 DEF MInv

(* A payment that becomes final uses the promise it was covered by.         *)
LEMMA PaymentCovered ==
    ASSUME MInv, NEW c \in Calls, NEW k \in {1, 2}, c \in Promised,
           PaidBy(k)' = PaidBy(k) \cup {c}, c \notin PaidBy(k),
           \A j \in {1, 2} : j # k => PaidBy(j)' = PaidBy(j),
           EarnedSet' = EarnedSet, Promised' \subseteq Promised \ {c}
    PROVE  /\ Covered'
           /\ IsFiniteSet(PaidBy(1))' /\ IsFiniteSet(PaidBy(2))' /\ IsFiniteSet(EarnedSet)'
           /\ (BountySum(PaidBy(1)) + BountySum(PaidBy(2)))'
                = BountySum(PaidBy(1)) + BountySum(PaidBy(2)) + Bounty[c]
<1>0. Bounty[c] \in Nat
    OBVIOUS
<1>1. BountySum(PaidBy(k) \cup {c}) = BountySum(PaidBy(k)) + Bounty[c]
      /\ IsFiniteSet(PaidBy(k) \cup {c})
    <2>1. PaidBy(k) \in SUBSET Calls /\ IsFiniteSet(PaidBy(k))
        BY Totals
    <2> QED BY <2>1, BountiesAdd, FS_AddElement
<1>2. BountySum(PaidBy(k))' = BountySum(PaidBy(k)) + Bounty[c]
    BY <1>1 DEF BountySum
<1>3. \A j \in {1, 2} : j # k => BountySum(PaidBy(j))' = BountySum(PaidBy(j))
    BY DEF BountySum
<1>4. (BountySum(PaidBy(1)) + BountySum(PaidBy(2)))'
        = BountySum(PaidBy(1)) + BountySum(PaidBy(2)) + Bounty[c]
    <2>1. CASE k = 1
        <3>1. BountySum(PaidBy(1))' = BountySum(PaidBy(1)) + Bounty[c]
            BY <1>2, <2>1
        <3>2. BountySum(PaidBy(2))' = BountySum(PaidBy(2))
            BY <1>3, <2>1
        <3> QED BY <3>1, <3>2, <1>0, Totals
    <2>2. CASE k = 2
        <3>1. BountySum(PaidBy(2))' = BountySum(PaidBy(2)) + Bounty[c]
            BY <1>2, <2>2
        <3>2. BountySum(PaidBy(1))' = BountySum(PaidBy(1))
            BY <1>3, <2>2
        <3> QED BY <3>1, <3>2, <1>0, Totals
    <2> QED BY <2>1, <2>2
<1>5. PICK P : P = Promised'
    OBVIOUS
<1>6. /\ BountySum(Promised) = BountySum(Promised \ {c}) + Bounty[c]
      /\ BountySum(P) \in Nat /\ BountySum(P) <= BountySum(Promised \ {c})
      /\ BountySum(Promised \ {c}) \in Nat
    <2>1. Promised \in SUBSET Calls /\ IsFiniteSet(Promised)
        BY Totals
    <2>2. /\ BountySum(Promised) = BountySum(Promised \ {c}) + Bounty[c]
          /\ IsFiniteSet(Promised \ {c})
        BY <2>1, BountiesTake
    <2>3. Promised \ {c} \in SUBSET Calls /\ P \in SUBSET (Promised \ {c})
        BY <2>1, <1>5
    <2> QED BY <2>2, <2>3, BountiesPart
<1>7. BountySum(PaidBy(1)) + BountySum(PaidBy(2)) + Bounty[c] + BountySum(P)
        <= IncomeSum(EarnedSet)
    BY <1>0, <1>6, Totals DEF MInv, Covered
<1>8. IncomeSum(EarnedSet)' = IncomeSum(EarnedSet) /\ BountySum(Promised)' = BountySum(P)
    BY <1>5 DEF IncomeSum, BountySum
<1>9. Covered'
    BY <1>4, <1>7, <1>8 DEF Covered
<1>10. \A j \in {1, 2} : IsFiniteSet(PaidBy(j))'
    BY <1>1, Totals
<1> QED
    BY <1>4, <1>9, <1>10, Totals

(* A new final entry counts once, on its side.                              *)
LEMMA FinalIsCounted ==
    ASSUME MInv, NEW e \in Entry, e \notin rows, e.settled, e.from # e.to
    PROVE  /\ AmountSum(Received \cup {e}) = AmountSum(Received) + e.amount
           /\ AmountSum(Sent \cup {e}) = AmountSum(Sent) + e.amount
           /\ AmountSum(Received) \in Nat /\ AmountSum(Sent) \in Nat
<1>1. Received \in SUBSET Entry /\ Sent \in SUBSET Entry
    BY DEF MInv, IInv, Typed, TypeOK, Received, Sent
<1>2. IsFiniteSet(Received) /\ IsFiniteSet(Sent)
    <2>1. Received \in SUBSET rows /\ Sent \in SUBSET rows /\ IsFiniteSet(rows)
        BY DEF Received, Sent, MInv, RowsInv
    <2> QED BY <2>1, FS_Subset
<1>3. e \notin Received /\ e \notin Sent
    BY DEF Received, Sent
<1> QED
    BY <1>1, <1>2, <1>3, AmountsAdd

LEMMA SettledReplaced ==
    ASSUME NEW a, NEW b, NEW c, NEW d, NEW s, NEW t
    PROVE  [[id |-> a, from |-> b, to |-> c, amount |-> d, settled |-> s] EXCEPT !.settled = t]
             = [id |-> a, from |-> b, to |-> c, amount |-> d, settled |-> t]
OBVIOUS

(* The final entry of a call is its unsettled one with the mark changed.    *)
LEMMA PaymentReopened ==
    ASSUME NEW c, NEW k, NEW to
    PROVE  [Payment(c, k, to, TRUE) EXCEPT !.settled = FALSE] = Payment(c, k, to, FALSE)
<1>1. PICK s, t, id : s = TRUE /\ t = FALSE /\ id = <<c, k>>
    OBVIOUS
<1>2. [[id |-> id, from |-> Me, to |-> to, amount |-> Bounty[c], settled |-> s]
         EXCEPT !.settled = t]
        = [id |-> id, from |-> Me, to |-> to, amount |-> Bounty[c], settled |-> t]
    BY SettledReplaced
<1> QED
    BY <1>1, <1>2, Zenon DEF Payment

(* Cosigning turns the entry of a call into a payment out of its hold.      *)
LEMMA CosignMoney ==
    ASSUME MInv, IInv', NEW c \in Calls, cosign_as_payer(c)
    PROVE  MInv'
<1>0. /\ pc \in [Calls -> Steps] /\ Typed /\ RowsInv /\ OrderAt(c) /\ VerifiedAt(c)
      /\ RowOfCall(c) /\ rows \subseteq Entry
    BY DEF MInv, IInv, Typed, TypeOK, RowsInv
<1>1. PICK a : a = bundle[c].agent
    OBVIOUS
<1>2. PICK p : p = Payment(c, 1, a, TRUE)
    OBVIOUS
<1>3. /\ pc[c] = "verified" /\ Goto(c, "cosigned")
      /\ rows' = {e \in rows : e.id # <<c, 1>>} \cup {p}
      /\ book' = book /\ allocated' = allocated /\ copies' = copies /\ bundle' = bundle
    BY <1>1, <1>2 DEF cosign_as_payer
<1>4. a \in Keys /\ a # Me
    <2>1. bundle[c] \in Bundles /\ Payable(c, bundle[c])
        BY <1>0, <1>3 DEF VerifiedAt
    <2>2. bundle[c].agent # Me
        BY <2>1, PayableIsBounded
    <2> QED BY <1>1, <2>1, <2>2 DEF Bundle
<1>5. /\ p.id = <<c, 1>> /\ p.settled = TRUE /\ p.from = Me /\ p.to = a
      /\ p.amount = Bounty[c]
    BY <1>2 DEF Payment
<1>6. p \in Entry /\ RowShape(p)
    BY <1>2, <1>4, PaymentTyped DEF RowShape
<1>7. \A e \in rows : e.id = <<c, 1>> => e = Payment(c, 1, a, FALSE)
    BY <1>0, <1>1, <1>3 DEF RowOfCall
<1>8. \A e \in rows : e.id = <<c, 1>> => ~e.settled /\ [p EXCEPT !.settled = FALSE] = e
    <2>1. ~Payment(c, 1, a, FALSE).settled
        BY DEF Payment
    <2>2. [p EXCEPT !.settled = FALSE] = Payment(c, 1, a, FALSE)
        BY <1>2, PaymentReopened, Zenon
    <2> QED BY <1>7, <2>1, <2>2
<1>9. p \notin rows
    BY <1>5, <1>8
<1>10. RowsInv'
    <2>1. IsFiniteSet(rows')
        <3> DEFINE rest == {e \in rows : e.id # <<c, 1>>}
        <3>1. IsFiniteSet(rest)
            <4>1. rest \in SUBSET rows /\ IsFiniteSet(rows)
                BY <1>0 DEF RowsInv
            <4> QED BY <4>1, FS_Subset
        <3>2. rows' = rest \cup {p}
            BY <1>3
        <3> HIDE DEF rest
        <3> QED BY <3>1, <3>2, FS_AddElement
    <2>2. \A x, y \in rows' : x.id = y.id => x = y
        BY <1>0, <1>3, <1>5 DEF RowsInv
    <2>3. ASSUME NEW e \in copies' PROVE \E r \in rows' : Older(e, r)
        <3>1. PICK r \in rows : Older(e, r)
            BY <2>3, <1>0, <1>3 DEF RowsInv
        <3>2. CASE r.id # <<c, 1>>
            BY <3>1, <3>2, <1>3
        <3>3. CASE r.id = <<c, 1>>
            <4>1. e = r
                BY <3>1, <3>3, <1>0, <1>8, OlderFacts
            <4>2. e = [p EXCEPT !.settled = FALSE]
                BY <4>1, <3>3, <1>8
            <4> QED BY <4>2, <1>3 DEF Older
        <3> QED BY <3>2, <3>3
    <2>4. \A e \in rows' : RowShape(e)
        BY <1>0, <1>3, <1>6 DEF RowsInv
    <2>5. \A d \in Calls : pc'[d] \in {"new", "waiting", "verified"} => pc'[d] = pc[d]
        BY <1>0, <1>3, GotoOnly
    <2>6. ASSUME NEW d \in Calls PROVE RowOfCall(d)'
        <3>1. CASE d = c
            <4>1. pc'[c] = "cosigned"
                BY <1>0, <1>3 DEF Goto
            <4> QED BY <3>1, <4>1 DEF RowOfCall
        <3>2. CASE d # c
            <4>1. p.id # <<d, 1>>
                BY <1>5, <3>2, IdsDiffer
            <4>2. \A e \in rows' : e \in rows \/ e.id # <<d, 1>>
                BY <4>1, <1>3
            <4> QED BY <4>2, <2>5, <1>0, <1>3, RowOfCallKept
        <3> QED BY <3>1, <3>2
    <2>7. IsFiniteSet(copies')
        BY <1>0, <1>3 DEF RowsInv
    <2> QED BY <2>1, <2>2, <2>3, <2>4, <2>6, <2>7 DEF RowsInv
<1>11. EarnedSet' = EarnedSet
    <2>1. \A i : p.id # <<i, 0>> /\ <<c, 1>> # <<i, 0>>
        BY <1>5
    <2> QED BY <1>3, <2>1 DEF EarnedSet, Earned
<1>12. Received' = Received /\ Sent' = Sent \cup {p}
    BY <1>3, <1>4, <1>5, <1>8 DEF Received, Sent
<1>13. ~Paid(c, 1) /\ ~Paid(c, 2) /\ book[c] = "active"
    BY <1>0, <1>3 DEF OrderAt
<1>14. PaidBy(1)' = PaidBy(1) \cup {c} /\ c \notin PaidBy(1)
    <2>1. Paid(c, 1)'
        BY <1>3, <1>5 DEF Paid
    <2>2. \A d \in Calls : d # c => Paid(d, 1)' = Paid(d, 1)
        BY <1>3, <1>5 DEF Paid
    <2> QED BY <1>13, <2>1, <2>2 DEF PaidBy
<1>15. PaidBy(2)' = PaidBy(2)
    BY <1>3, <1>5 DEF PaidBy, Paid
<1>16. c \in Promised /\ Promised' \subseteq Promised \ {c}
    <2>1. c \in Promised
        BY <1>13 DEF Promised, PaidAny
    <2>2. \A d \in Calls : PaidAny(d)' <=> PaidAny(d) \/ d = c
        BY <1>14, <1>15 DEF PaidAny, PaidBy
    <2> QED BY <2>1, <2>2, <1>3 DEF Promised
<1>17. \A j \in {1, 2} : j # 1 => PaidBy(j)' = PaidBy(j)
    BY <1>15
<1>18. /\ Covered'
       /\ IsFiniteSet(PaidBy(1))' /\ IsFiniteSet(PaidBy(2))' /\ IsFiniteSet(EarnedSet)'
       /\ (BountySum(PaidBy(1)) + BountySum(PaidBy(2)))'
            = BountySum(PaidBy(1)) + BountySum(PaidBy(2)) + Bounty[c]
    BY <1>11, <1>14, <1>16, <1>17, PaymentCovered
<1>19. AmountSum(Sent \cup {p}) = AmountSum(Sent) + Bounty[c]
    BY <1>4, <1>5, <1>6, <1>9, FinalIsCounted
<1>20. SumsInv'
    <2>1. AmountSum(Received)' = IncomeSum(EarnedSet)'
        BY <1>11, <1>12 DEF MInv, SumsInv, AmountSum, IncomeSum
    <2>2. AmountSum(Sent)' = AmountSum(Sent \cup {p})
        BY <1>12 DEF AmountSum
    <2>3. AmountSum(Sent)' = (BountySum(PaidBy(1)) + BountySum(PaidBy(2)))'
        BY <2>2, <1>18, <1>19 DEF MInv, SumsInv
    <2> QED BY <2>1, <2>3, <1>18 DEF SumsInv
<1>21. IsFiniteSet(Charged)' /\ BudgetExact'
    BY <1>3, SameBook
<1> QED
    BY <1>10, <1>18, <1>20, <1>21 DEF MInv

(* Another path ends the reservation of a waiting call.                     *)
LEMMA ElsewhereMoney ==
    ASSUME MInv, IInv', NEW c \in Calls, elsewhere(c)
    PROVE  MInv'
<1>0. /\ Typed /\ RowsInv /\ OrderAt(c) /\ book \in [Calls -> ResvState]
    BY DEF MInv, IInv, Typed, TypeOK
<1>1. /\ pc[c] = "waiting" /\ book[c] = "active"
      /\ pc' = pc /\ bundle' = bundle /\ copies' = copies
    BY DEF elsewhere, EndElsewhere
<1>2. CASE release(c) /\ UNCHANGED rows
    <2>1. IsFiniteSet(Charged)' /\ BudgetExact' /\ In("active")' \subseteq In("active")
        BY <1>2, ReleaseBooks
    <2> QED BY <1>1, <1>2, <2>1, BookOnlyStep
<1>3. CASE settle(c) /\ rows' = rows \cup {Payment(c, 2, Other, TRUE)}
    <2>1. PICK p : p = Payment(c, 2, Other, TRUE)
        OBVIOUS
    <2>2. /\ p.id = <<c, 2>> /\ p.settled = TRUE /\ p.from = Me /\ p.to = Other
          /\ p.amount = Bounty[c]
        BY <2>1 DEF Payment
    <2>3. p \in Entry /\ RowShape(p)
        BY <2>1, PaymentTyped DEF RowShape
    <2>4. ~Paid(c, 1) /\ ~Paid(c, 2)
        BY <1>0, <1>1 DEF OrderAt
    <2>5. \A x \in rows : x.id # p.id
        <3> SUFFICES ASSUME NEW x \in rows, x.id = <<c, 2>> PROVE FALSE
            BY <2>2
        <3>1. ~x.settled /\ RowShape(x)
            BY <2>4, <1>0 DEF Paid, RowsInv
        <3>2. \A d \in Calls, to \in Keys : x # Payment(d, 1, to, FALSE)
            BY IdsDiffer DEF Payment
        <3>3. \A d \in Calls : \A to : x # Payment(d, 2, to, TRUE) /\ x # Payment(d, 1, to, TRUE)
            BY <3>1 DEF Payment
        <3>4. \A i \in Incomes : ~IsIncome(x, i)
            BY <3>1 DEF IsIncome
        <3> QED BY <3>1, <3>2, <3>3, <3>4 DEF RowShape
    <2>6. rows' = rows \cup {p}
        BY <1>3, <2>1
    <2>7. RowsInv'
        <3>1. \A d : p.id # <<d, 1>>
            BY <2>2, IdsDiffer
        <3>2. \A d \in Calls : RowOfCall(d)'
            BY <3>1, <1>0, <1>1, <2>6, RowOfCallKept
        <3> QED BY <3>2, <1>1, <2>3, <2>5, <2>6, NewRowStep
    <2>8. EarnedSet' = EarnedSet
        <3>1. \A i : p.id # <<i, 0>>
            BY <2>2
        <3> QED BY <3>1, <2>6 DEF EarnedSet, Earned
    <2>9. Received' = Received /\ Sent' = Sent \cup {p}
        BY <2>2, <2>6 DEF Received, Sent
    <2>10. PaidBy(2)' = PaidBy(2) \cup {c} /\ c \notin PaidBy(2)
        <3>1. Paid(c, 2)'
            BY <2>2, <2>6 DEF Paid
        <3>2. \A d \in Calls : d # c => Paid(d, 2)' = Paid(d, 2)
            BY <2>2, <2>6 DEF Paid
        <3> QED BY <2>4, <3>1, <3>2 DEF PaidBy
    <2>11. PaidBy(1)' = PaidBy(1)
        BY <2>2, <2>6 DEF PaidBy, Paid
    <2>12. IsFiniteSet(Charged)' /\ BudgetExact' /\ In("active")' = In("active") \ {c}
        BY <1>3, SettleBooks
    <2>13. c \in Promised /\ Promised' \subseteq Promised \ {c}
        <3>1. c \in Promised
            BY <1>1, <2>4 DEF Promised, PaidAny
        <3>2. \A d \in Calls : PaidAny(d) => PaidAny(d)'
            BY <2>10, <2>11 DEF PaidAny, PaidBy
        <3>3. \A d \in Calls : book'[d] = "active" => book[d] = "active" /\ d # c
            BY <2>12 DEF In
        <3> QED BY <3>1, <3>2, <3>3 DEF Promised
    <2>14. \A j \in {1, 2} : j # 2 => PaidBy(j)' = PaidBy(j)
        BY <2>11
    <2>15. /\ Covered'
           /\ IsFiniteSet(PaidBy(1))' /\ IsFiniteSet(PaidBy(2))' /\ IsFiniteSet(EarnedSet)'
           /\ (BountySum(PaidBy(1)) + BountySum(PaidBy(2)))'
                = BountySum(PaidBy(1)) + BountySum(PaidBy(2)) + Bounty[c]
        BY <2>8, <2>10, <2>13, <2>14, PaymentCovered
    <2>16. AmountSum(Sent \cup {p}) = AmountSum(Sent) + Bounty[c]
        BY <2>2, <2>3, <2>5, FinalIsCounted
    <2>17. SumsInv'
        <3>1. AmountSum(Received)' = IncomeSum(EarnedSet)'
            BY <2>8, <2>9 DEF MInv, SumsInv, AmountSum, IncomeSum
        <3>2. AmountSum(Sent)' = AmountSum(Sent \cup {p})
            BY <2>9 DEF AmountSum
        <3>3. AmountSum(Sent)' = (BountySum(PaidBy(1)) + BountySum(PaidBy(2)))'
            BY <3>2, <2>15, <2>16 DEF MInv, SumsInv
        <3> QED BY <3>1, <3>3, <2>15 DEF SumsInv
    <2> QED
        BY <2>7, <2>12, <2>15, <2>17 DEF MInv
<1> QED
    BY <1>2, <1>3 DEF elsewhere, EndElsewhere

(* Income only widens what may be promised.                                 *)
LEMMA EarnMoney ==
    ASSUME MInv, IInv', NEW i \in Incomes, earn(i)
    PROVE  MInv'
<1>0. Typed /\ RowsInv /\ IncomeOf[i] \in Nat
    BY DEF MInv, IInv
<1>1. PICK e : IsIncome(e, i)
    BY DEF IsIncome
<1>2. /\ \A x \in rows : x.id # <<i, 0>>
      /\ rows' = rows \cup {e} /\ copies' = copies /\ pc' = pc /\ bundle' = bundle
      /\ book' = book /\ allocated' = allocated
    BY <1>1 DEF earn, IsIncome
<1>3. /\ e.id = <<i, 0>> /\ e.settled = TRUE /\ e.from = Other /\ e.to = Me
      /\ e.amount = IncomeOf[i]
    BY <1>1 DEF IsIncome
<1>4. e \in Entry
    <2>1. <<i, 0>> \in EntryIds
        BY DEF EntryIds
    <2> QED BY <1>0, <1>1, <2>1 DEF IsIncome, Entry
<1>5. \A c \in Calls, k \in {1, 2} : e.id # <<c, k>>
    BY <1>3
<1>6. RowsInv'
    <2>1. \A c \in Calls : RowOfCall(c)'
        BY <1>0, <1>2, <1>5, RowOfCallKept
    <2>2. RowShape(e)
        BY <1>1 DEF RowShape
    <2>3. \A x \in rows : x.id # e.id
        BY <1>2, <1>3
    <2> QED BY <2>1, <2>2, <2>3, <1>2, NewRowStep
<1>7. PaidBy(1)' = PaidBy(1) /\ PaidBy(2)' = PaidBy(2)
    BY <1>2, <1>5 DEF PaidBy, Paid
<1>8. EarnedSet' = EarnedSet \cup {i} /\ i \notin EarnedSet
    BY <1>2, <1>3 DEF EarnedSet, Earned
<1>9. Received' = Received \cup {e} /\ Sent' = Sent
    BY <1>2, <1>3 DEF Received, Sent
<1>10. /\ IncomeSum(EarnedSet \cup {i}) = IncomeSum(EarnedSet) + IncomeOf[i]
       /\ IsFiniteSet(EarnedSet \cup {i})
    BY <1>8, Totals, IncomesAdd, FS_AddElement
<1>11. AmountSum(Received \cup {e}) = AmountSum(Received) + IncomeOf[i]
    <2>1. e \notin rows /\ e.from # e.to
        BY <1>2, <1>3
    <2> QED BY <2>1, <1>3, <1>4, FinalIsCounted
<1>12. IncomeSum(EarnedSet)' = IncomeSum(EarnedSet) + IncomeOf[i]
    BY <1>8, <1>10 DEF IncomeSum
<1>13. SumsInv'
    <2>1. AmountSum(Received)' = AmountSum(Received) + IncomeOf[i]
        BY <1>9, <1>11 DEF AmountSum
    <2>2. AmountSum(Received)' = IncomeSum(EarnedSet)'
        BY <2>1, <1>12 DEF MInv, SumsInv
    <2>3. AmountSum(Sent)' = (BountySum(PaidBy(1)) + BountySum(PaidBy(2)))'
        BY <1>7, <1>9 DEF MInv, SumsInv, AmountSum, BountySum
    <2>4. IsFiniteSet(PaidBy(1))' /\ IsFiniteSet(PaidBy(2))' /\ IsFiniteSet(EarnedSet)'
        BY <1>7, <1>8, <1>10, Totals
    <2> QED BY <2>2, <2>3, <2>4 DEF SumsInv
<1>14. IsFiniteSet(Charged)' /\ BudgetExact'
    BY <1>2, SameBook
<1>15. Covered'
    <2>1. Promised' = Promised
        BY <1>2, <1>7 DEF Promised, PaidAny, PaidBy
    <2>2. BountySum(PaidBy(1)) + BountySum(PaidBy(2)) + BountySum(Promised)
            <= IncomeSum(EarnedSet) + IncomeOf[i]
        BY <1>0, Totals DEF MInv, Covered
    <2> QED BY <2>1, <2>2, <1>7, <1>12 DEF Covered, BountySum
<1> QED
    BY <1>6, <1>13, <1>14, <1>15 DEF MInv

(* A second copy changes no row.                                            *)
LEMMA ReplayMoney ==
    ASSUME MInv, IInv', NEW e \in rows, replay(e)
    PROVE  MInv'
<1>0. RowsInv /\ rows \subseteq Entry
    BY DEF MInv, IInv, Typed, TypeOK
<1>1. PICK final \in {e.settled, FALSE} : copies' = copies \cup {[e EXCEPT !.settled = final]}
    BY DEF replay
<1>2. /\ rows' = rows /\ pc' = pc /\ bundle' = bundle /\ book' = book /\ allocated' = allocated
    BY DEF replay
<1>3. PICK x : x = [e EXCEPT !.settled = final]
    OBVIOUS
<1>4. Older(x, e)
    <2>1. CASE final = FALSE
        BY <2>1, <1>3 DEF Older
    <2>2. CASE final = e.settled
        <3>1. e \in Entry
            BY <1>0
        <3>2. x = e
            BY <3>1, <2>2, <1>3 DEF Entry
        <3> QED BY <3>2 DEF Older
    <2> QED BY <2>1, <2>2, <1>1
<1>5. RowsInv'
    <2>0. IsFiniteSet(copies) /\ copies' = copies \cup {x}
        BY <1>0, <1>1, <1>3 DEF RowsInv
    <2>1. IsFiniteSet(copies')
        BY <2>0, FS_AddElement
    <2>3. ASSUME NEW y \in copies' PROVE \E r \in rows' : Older(y, r)
        <3>1. CASE y \in copies
            BY <3>1, <1>0, <1>2 DEF RowsInv
        <3>2. CASE y = x
            BY <3>2, <1>2, <1>4
        <3> QED BY <2>0, <2>3, <3>1, <3>2
    <2>2. \A c \in Calls : RowOfCall(c)'
        BY <1>0, <1>2, RowOfCallKept
    <2> QED BY <2>1, <2>2, <2>3, <1>0, <1>2 DEF RowsInv
<1>6. /\ SumsInv' /\ EarnedSet' = EarnedSet
      /\ PaidBy(1)' = PaidBy(1) /\ PaidBy(2)' = PaidBy(2)
    BY <1>2, SameRowSums
<1>7. IsFiniteSet(Charged)' /\ BudgetExact' /\ In("active")' = In("active")
    BY <1>2, SameBook
<1>8. Covered'
    BY <1>6, <1>7, CoverKept
<1> QED
    BY <1>5, <1>6, <1>7, <1>8 DEF MInv

LEMMA MoneyStart == Init => MInv
<1> SUFFICES ASSUME Init PROVE MInv
    OBVIOUS
<1>1. IInv
    BY InitHolds
<1>2. rows = {} /\ copies = {} /\ allocated = 0 /\ book = [c \in Calls |-> "none"]
    BY DEF Init
<1>3. /\ PaidBy(1) = {} /\ PaidBy(2) = {} /\ EarnedSet = {} /\ Promised = {} /\ Charged = {}
      /\ Received = {} /\ Sent = {}
    BY <1>2 DEF PaidBy, Paid, EarnedSet, Earned, Promised, Charged, In, Received, Sent
<1>4. IsFiniteSet({})
    BY FS_EmptySet
<1>5. /\ BountySum({}) = 0 /\ IncomeSum({}) = 0 /\ AmountSum({}) = 0
    <2>1. \A f \in [{} -> Int] : SumFunctionOnSet(f, {}) = 0
        BY SumOfNothing
    <2>2. /\ [c \in {} |-> Bounty[c]] \in [{} -> Int]
          /\ [i \in {} |-> IncomeOf[i]] \in [{} -> Int]
          /\ [e \in {} |-> e.amount] \in [{} -> Int]
        OBVIOUS
    <2> QED BY <2>1, <2>2 DEF BountySum, IncomeSum, AmountSum, SumFunction
<1>6. RowsInv
    BY <1>2, <1>4 DEF RowsInv, RowOfCall
<1>7. SumsInv
    BY <1>3, <1>4, <1>5 DEF SumsInv
<1>8. BudgetExact
    <2>1. In("active") \cup In("settled") = {}
        BY <1>3 DEF Charged
    <2>2. BountySum(In("active") \cup In("settled")) = 0
        BY <2>1, <1>5, Zenon
    <2>3. 0 <= Total
        OBVIOUS
    <2> QED BY <1>2, <2>2, <2>3 DEF BudgetExact
<1>9. Covered
    <2>1. /\ BountySum(PaidBy(1)) = 0 /\ BountySum(PaidBy(2)) = 0
          /\ BountySum(Promised) = 0 /\ IncomeSum(EarnedSet) = 0
        BY <1>3, <1>5
    <2> QED BY <2>1 DEF Covered
<1> QED
    BY <1>1, <1>3, <1>4, <1>6, <1>7, <1>8, <1>9 DEF MInv

LEMMA MoneyStep == MInv /\ [Next]_vars => MInv'
<1> SUFFICES ASSUME MInv, [Next]_vars PROVE MInv'
    OBVIOUS
<1>0. IInv'
    BY StepHolds DEF MInv
<1>1. ASSUME NEW c \in Calls, refuse(c) PROVE MInv'
    BY <1>0, <1>1, RefuseMoney
<1>2. ASSUME NEW c \in Calls, reserve_and_post(c) PROVE MInv'
    BY <1>0, <1>2, ReserveMoney
<1>3. ASSUME NEW c \in Calls, Proceed(c) PROVE MInv'
    <2>1. CASE give_up(c) \/ cosign_rejected(c)
        BY <1>0, <2>1, FailMoney DEF give_up, cosign_rejected
    <2>2. ASSUME NEW b \in Bundles, result_arrives(c, b) PROVE MInv'
        BY <1>0, <2>2, ResultMoney
    <2>3. CASE cosign_as_payer(c)
        BY <1>0, <2>3, CosignMoney
    <2>4. CASE settle_and_return(c)
        BY <1>0, <2>4, SettleMoney
    <2> QED BY <1>3, <2>1, <2>2, <2>3, <2>4 DEF Proceed
<1>4. ASSUME NEW c \in Calls, cosign_raises(c) PROVE MInv'
    BY <1>0, <1>4, FailMoney DEF cosign_raises
<1>5. ASSUME NEW c \in Calls, elsewhere(c) PROVE MInv'
    BY <1>0, <1>5, ElsewhereMoney
<1>6. ASSUME NEW i \in Incomes, earn(i) PROVE MInv'
    BY <1>0, <1>6, EarnMoney
<1>7. ASSUME NEW e \in rows, replay(e) PROVE MInv'
    BY <1>0, <1>7, ReplayMoney
<1>8. CASE crash
    BY <1>0, <1>8, CrashMoney
<1>9. ASSUME NEW c \in Calls, escape(c) PROVE MInv'
    BY <1>0, <1>9, EscapeMoney
<1>10. CASE UNCHANGED vars
    <2>1. /\ rows' = rows /\ copies' = copies /\ pc' = pc /\ bundle' = bundle
          /\ book' = book /\ allocated' = allocated
        BY <1>10 DEF vars
    <2>2. IsFiniteSet(Charged)' /\ BudgetExact' /\ In("active")' = In("active")
        BY <2>1, SameBook
    <2> QED BY <1>0, <2>1, <2>2, BookOnlyStep
<1> QED
    BY <1>1, <1>2, <1>3, <1>4, <1>5, <1>6, <1>7, <1>8, <1>9, <1>10 DEF Next

(* Any number of concurrent subcontracts, whatever times out, is abandoned, *)
(* settled elsewhere, delivered again or dies with the process: the settled *)
(* balance never goes below zero, the wallet shows what was earned less     *)
(* what was paid in whatever order copies come, and the budget is charged   *)
(* for what is held or was paid and never beyond its total                  *)
(* (ReservationBook.reserve, settle, release; Wallet.net_balance).          *)
THEOREM MoneyStaysExact == Spec => []MoneyExact
<1> QED
    BY MoneyStart, MoneyStep, MoneyFromInv, PTL DEF Spec
=============================================================================
