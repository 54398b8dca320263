--------------------------- MODULE BroadcastFence ---------------------------
(***************************************************************************)
(* The leases of the automatic settlement workers: one row per intent in   *)
(* x402_settlement_attempts, and the durable broadcast fence of the        *)
(* facilitator account, as PostgresAutomaticSettlementSource changes them. *)
(* Each action is one statement; what the statement refuses is the         *)
(* negation of the Can... operator.                                        *)
(*                                                                         *)
(* One facilitator is modelled: ShardedFacilitatorClient routes an intent  *)
(* to a shard by its hash alone, so shards share no intent and no fence.   *)
(* A lease is either running or expired; how long it runs is left open.    *)
(***************************************************************************)
EXTENDS DealTerms

CONSTANTS
    Workers,    \* worker_id
    NoWorker,   \* a NULL lease_owner
    NoIntent

ASSUME FenceAssumption == NoWorker \notin Workers /\ NoIntent \notin Intents

VARIABLES
    attempt,    \* attempt[i]: status, lease_owner, and whether the lease has expired
    fence       \* the facilitator's row of facilitator_broadcast_fences

fenceVars == <<attempt, fence>>

Attempt(status, owner, expired) == [status |-> status, owner |-> owner, expired |-> expired]
NoAttempt == Attempt("none", NoWorker, FALSE)
FenceOf(i, owner, expired) == [intent |-> i, owner |-> owner, expired |-> expired]
NoFence == FenceOf(NoIntent, NoWorker, FALSE)

FenceInit ==
    /\ attempt = [i \in Intents |-> NoAttempt]
    /\ fence = NoFence

\* The attempts that may have a transaction on its way, other than the ones
\* whose submission row is recorded.
Unresolved(recorded) ==
    {i \in Intents \ recorded : attempt[i].status \in {"submitting", "unknown"}}

-----------------------------------------------------------------------------
(* Attempts *)

\* Mutant: an attempt that is being submitted may be taken over.
CanClaimAttempt_Submitting(i) ==
    \/ attempt[i].status \in {"none", "submitting"}
    \/ attempt[i].status \in {"reserved", "signed"} /\ attempt[i].expired
CanClaimAttempt(i) ==
    \/ attempt[i].status = "none"
    \/ attempt[i].status \in {"reserved", "signed"} /\ attempt[i].expired

claim_attempt(i, w) ==
    /\ CanClaimAttempt(i)
    /\ attempt' = [attempt EXCEPT ![i] =
                      Attempt(IF @.status = "none" THEN "reserved" ELSE @.status, w, FALSE)]
    /\ UNCHANGED fence

Owns(i, w) == attempt[i].owner = w

\* A terminal status gives up the lease.
mark_attempt(i, w, status) ==
    /\ Owns(i, w)
    /\ attempt' = [attempt EXCEPT ![i] =
                      IF status \in {"submitted", "failed", "unknown"}
                      THEN Attempt(status, NoWorker, FALSE)
                      ELSE Attempt(status, @.owner, @.expired)]
    /\ UNCHANGED fence

CanDefer(i, w) == Owns(i, w) /\ attempt[i].status \in {"reserved", "signed"}

\* The lease is cut to a retry time about a second ahead; the wait is left out.
defer_attempt(i, w) ==
    /\ CanDefer(i, w)
    /\ attempt' = [attempt EXCEPT ![i] = Attempt(@.status, @.owner, TRUE)]
    /\ UNCHANGED fence

ExpireAttempt(i) ==
    /\ attempt[i].owner # NoWorker
    /\ ~attempt[i].expired
    /\ attempt' = [attempt EXCEPT ![i] = Attempt(@.status, @.owner, TRUE)]
    /\ UNCHANGED fence

-----------------------------------------------------------------------------
(* The fence *)

\* Mutant: an expired fence is free whatever became of its attempt.
CanClaimFence_LeaseOnly(recorded) == fence = NoFence \/ fence.expired
CanClaimFence(recorded) ==
    /\ Unresolved(recorded) = {}
    /\ fence = NoFence \/ fence.expired

claim_facilitator_fence(i, w, recorded) ==
    /\ CanClaimFence(recorded)
    /\ fence' = FenceOf(i, w, FALSE)
    /\ UNCHANGED attempt

HoldsFence(i, w) == fence.intent = i /\ fence.owner = w

release_facilitator_fence(i, w) ==
    /\ HoldsFence(i, w)
    /\ fence' = NoFence
    /\ UNCHANGED attempt

\* The DELETE at the end of record_recovered_submission, whoever holds it.
ClearFence(i) ==
    /\ fence' = IF fence.intent = i THEN NoFence ELSE fence
    /\ UNCHANGED attempt

ExpireFence ==
    /\ fence # NoFence
    /\ ~fence.expired
    /\ fence' = FenceOf(fence.intent, fence.owner, TRUE)
    /\ UNCHANGED attempt
=============================================================================
