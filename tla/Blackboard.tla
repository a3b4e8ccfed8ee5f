----------------------------- MODULE Blackboard -----------------------------
(***************************************************************************)
(* The work_items table of one node's SQLite blackboard                    *)
(* (gyza/blackboard.py), shared by every runner process of the node.       *)
(*                                                                         *)
(* A row is spread over one function per column.  Embeddings, rewards and  *)
(* descriptions only decide WHICH servable row a runner prefers, so they   *)
(* are left to the runner's nondeterministic choice.  completed_at_ns,     *)
(* output_hash and icp_envelope_hash are always written together: they are *)
(* the one column `result', which names the envelope of the completion.    *)
(* claimed_at_ns is kept as the age of the claim, which saturates just     *)
(* past the lease, because it is only ever compared with now - lease.      *)
(* The claim HLC is compared by gossip merges only and is modelled there.  *)
(***************************************************************************)
EXTENDS Integers, FiniteSets

CONSTANTS Items,       \* work item ids (uuid7), roots and children alike
          Roots,       \* the ids posted by clients; they have no parent
          RootTier,    \* [Roots -> Nat]: required_tier of each root
          Agents,      \* agent ids, one runner each
          NoItem, NoAgent, NoEnvelope,
          Lease        \* CLAIM_LEASE_NS in ticks

ASSUME BoardAssumption ==
    /\ Roots \subseteq Items
    /\ RootTier \in [Roots -> Nat]
    /\ NoItem \notin Items
    /\ NoAgent \notin Agents
    /\ Lease \in Nat

(* An ICP envelope as far as the board and the verifiers tell two of them   *)
(* apart: who signed, for which action, when (seq orders the timestamps and *)
(* stands for the envelope hash), the siblings whose outputs input_hashes   *)
(* commits to, the children named in the signed artifact (__subtasks__),    *)
(* and parent_envelope_hash: the seq of its parent envelope, or NoParent.   *)
NoParent == -1

Envelope == [agent : Agents, action : Items, seq : Nat, inputs : SUBSET Items,
             children : SUBSET Items, parent : Nat \cup {NoParent}]

ASSUME EnvelopeAssumption == NoEnvelope \notin Envelope

VARIABLES
    posted,         \* ids that have a row
    parent_id,      \* [Items -> Items \cup {NoItem}]
    kind,           \* output_spec["kind"]: "leaf" or "combine"
    required_tier,  \* [Items -> Nat]
    claimed_by,     \* [Items -> Agents \cup {NoAgent}]
    claim_age,      \* now - claimed_at_ns, at most Lease + 1
    result,         \* [Items -> Envelope \cup {NoEnvelope}]
    expired         \* ids whose created_at_ns + ttl_ns is past

boardVars == <<posted, parent_id, kind, required_tier, claimed_by, claim_age,
               result, expired>>

Kinds == {"leaf", "combine"}

BoardTypeOK ==
    /\ posted \subseteq Items
    /\ parent_id \in [Items -> Items \cup {NoItem}]
    /\ kind \in [Items -> Kinds]
    /\ required_tier \in [Items -> Nat]
    /\ claimed_by \in [Items -> Agents \cup {NoAgent}]
    /\ claim_age \in [Items -> 0 .. Lease + 1]
    /\ result \in [Items -> Envelope \cup {NoEnvelope}]
    /\ expired \subseteq Items

BoardInit ==
    /\ posted = {}
    /\ parent_id = [i \in Items |-> NoItem]
    /\ kind = [i \in Items |-> "leaf"]
    /\ required_tier = [i \in Items |-> 0]
    /\ claimed_by = [i \in Items |-> NoAgent]
    /\ claim_age = [i \in Items |-> 0]
    /\ result = [i \in Items |-> NoEnvelope]
    /\ expired = {}

Completed(i) == result[i] # NoEnvelope

----------------------------------------------------------------------------
(* Reads.                                                                   *)

(* children_of(p): the rows whose parent_id is p.                           *)
children_of(p) == {c \in posted : parent_id[c] = p}

(* Variants of pending_siblings: a claimed sibling taken for a finished     *)
(* one, and the combiner counted among those it waits for.                  *)
pending_siblings_claimed_done(i) ==
    IF parent_id[i] = NoItem THEN {}
    ELSE {c \in children_of(parent_id[i]) : c # i /\ claimed_by[c] = NoAgent}

pending_siblings_with_self(i) ==
    IF parent_id[i] = NoItem THEN {}
    ELSE {c \in children_of(parent_id[i]) : ~Completed(c)}

(* The siblings a combiner waits for: every other child of its parent that  *)
(* has not completed, whoever posted it and whatever its kind.              *)
pending_siblings(i) ==
    IF parent_id[i] = NoItem THEN {}
    ELSE {c \in children_of(parent_id[i]) : c # i /\ ~Completed(c)}

(* get_unclaimed(tier): unclaimed, tier permitted, TTL not past, and for a  *)
(* combiner no pending sibling.  The query does not look at completion: on  *)
(* one node a completed row still names its claimant.                       *)
get_unclaimed(tier) ==
    {i \in posted : /\ claimed_by[i] = NoAgent
                    /\ required_tier[i] <= tier
                    /\ i \notin expired
                    /\ kind[i] = "combine" => pending_siblings(i) = {}}

(* Variants of expired_claims: a cutoff one tick early, and the completion  *)
(* filter inverted.                                                         *)
expired_claims_early ==
    {<<i, claimed_by[i]>> : i \in {j \in posted : /\ claimed_by[j] # NoAgent
                                                  /\ ~Completed(j)
                                                  /\ claim_age[j] >= Lease}}

expired_claims_completed ==
    {<<i, claimed_by[i]>> : i \in {j \in posted : /\ claimed_by[j] # NoAgent
                                                  /\ Completed(j)
                                                  /\ claim_age[j] > Lease}}

(* The rows the reaper's SELECT returns, with the holder it saw.            *)
expired_claims ==
    {<<i, claimed_by[i]>> : i \in {j \in posted : /\ claimed_by[j] # NoAgent
                                                  /\ ~Completed(j)
                                                  /\ claim_age[j] > Lease}}

----------------------------------------------------------------------------
(* Writes.  Each is one SQLite statement or one BEGIN IMMEDIATE             *)
(* transaction, hence atomic.                                               *)

(* post_work_item: INSERT OR IGNORE of a fresh, unclaimed row.              *)
post_work_item(i, p, k, t) ==
    /\ i \notin posted
    /\ posted' = posted \cup {i}
    /\ parent_id' = [parent_id EXCEPT ![i] = p]
    /\ kind' = [kind EXCEPT ![i] = k]
    /\ required_tier' = [required_tier EXCEPT ![i] = t]
    /\ UNCHANGED <<claimed_by, claim_age, result, expired>>

(* Variant of Claimable: the claimed_by IS NULL test left out.              *)
ClaimableOverClaim(i, tier) == i \in posted /\ required_tier[i] <= tier

(* try_claim's SELECT inside the transaction.  Completion is not looked at. *)
Claimable(i, tier) ==
    /\ i \in posted
    /\ claimed_by[i] = NoAgent
    /\ required_tier[i] <= tier

(* try_claim when it returns True.                                          *)
try_claim(i, a) ==
    /\ claimed_by' = [claimed_by EXCEPT ![i] = a]
    /\ claim_age' = [claim_age EXCEPT ![i] = 0]
    /\ UNCHANGED <<posted, parent_id, kind, required_tier, result, expired>>

(* claimed_by=NULL, claimed_at_ns=NULL.                                     *)
ClearClaim(i) ==
    /\ claimed_by' = [claimed_by EXCEPT ![i] = NoAgent]
    /\ claim_age' = [claim_age EXCEPT ![i] = 0]
    /\ UNCHANGED <<posted, parent_id, kind, required_tier, result, expired>>

(* Variant of ReclaimGuard: completed_at_ns IS NULL left out of the UPDATE. *)
ReclaimGuardHolderOnly(i, holder) == claimed_by[i] = holder

(* One UPDATE of reclaim_expired_claims: its WHERE clause re-checks the     *)
(* holder and the completion but not the age of the claim.                  *)
ReclaimGuard(i, holder) == claimed_by[i] = holder /\ ~Completed(i)

reclaim(i, holder) ==
    IF ReclaimGuard(i, holder) THEN ClearClaim(i) ELSE UNCHANGED boardVars

(* release_claim: any claim on an item that has not completed; the caller   *)
(* is not compared with the holder.                                         *)
ReleaseGuard(i) == claimed_by[i] # NoAgent /\ ~Completed(i)

release_claim(i) ==
    IF ReleaseGuard(i) THEN ClearClaim(i) ELSE UNCHANGED boardVars

(* Variant of CompleteGuard: expected_owner=None, the unchecked path.       *)
CompleteGuardUnchecked(i, owner) == i \in posted

(* complete_work_item with expected_owner: WHERE id=? AND claimed_by=?.     *)
(* Otherwise ClaimLostError: the row is left alone.                         *)
CompleteGuard(i, owner) == claimed_by[i] = owner

complete_work_item(i, owner, env) ==
    IF CompleteGuard(i, owner)
    THEN /\ result' = [result EXCEPT ![i] = env]
         /\ UNCHANGED <<posted, parent_id, kind, required_tier, claimed_by,
                        claim_age, expired>>
    ELSE UNCHANGED boardVars

(* The wall clock: every live claim grows older, up to just past the lease. *)
Aged == [i \in Items |->
           IF claimed_by[i] # NoAgent /\ claim_age[i] <= Lease
           THEN claim_age[i] + 1 ELSE claim_age[i]]

(* The time to live of a row runs out.                                      *)
ttl_elapses(i) ==
    /\ i \in posted \ expired
    /\ expired' = expired \cup {i}
    /\ UNCHANGED <<posted, parent_id, kind, required_tier, claimed_by,
                   claim_age, result>>
=============================================================================
