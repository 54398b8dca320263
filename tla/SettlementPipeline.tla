------------------------- MODULE SettlementPipeline -------------------------
(***************************************************************************)
(* How a frozen deal gets paid: the automatic settlement workers drive the *)
(* mandate ledger, the Arena's settlement rows, the attempt leases and the *)
(* facilitator, the Arena's recovery worker follows the chain, and a       *)
(* caller of the x402 endpoint may execute the same intent at any time.    *)
(*                                                                         *)
(* A process takes one step per transaction or outside call, so that every *)
(* await of the code is a point where the others may run, and where the    *)
(* process may crash.  proc[p].pc names the call that comes next.          *)
(***************************************************************************)
EXTENDS PaymentLedger, SettlementIntents, BroadcastFence, TokenChain

CONSTANTS
    Callers,            \* requests to the x402 execute endpoint
    InitialMandates     \* the mandates the players created when they joined

ASSUME PipelineAssumption ==
    /\ Procs = Workers \cup Callers
    /\ Workers \cap Callers = {}
    /\ InitialMandates \subseteq Mandates
    /\ {"facilitator_verification_rejected", "facilitator_unreachable", "facilitator_rejected",
        "payment_pre_submission_failed",
        "automatic_settlement_pre_submission_failed"} \subseteq Reasons

VARIABLES
    proc,       \* proc[p]: the local variables of a worker or a caller
    reader      \* the local variables of the Arena's settlement recovery worker

vars == <<ledgerVars, clock, arenaVars, fenceVars, chainVars, proc, reader>>

\* Where a process is, what it has yet to recover or to execute, and the deal
\* it works on with the mandate it has read.
Local(pc, todo, queue, i, m) ==
    [pc |-> pc, todo |-> todo, queue |-> queue, intent |-> i, mandate |-> m,
     tx |-> NoTx, result |-> "none", why |-> NoReason]
Idle == Local("idle", {}, {}, NoIntent, NoMandate)

ReaderAt(pc, queue, i, depth) == [pc |-> pc, queue |-> queue, intent |-> i, depth |-> depth]
ReaderIdle == ReaderAt("scan", {}, NoIntent, 0)

Recorded == {i \in Intents : submission[i] # NoSubmission}

PipelineInit ==
    /\ mandate = [m \in Mandates |-> IF m \in InitialMandates
                                     THEN WithStatus(NoMandateRow, "active") ELSE NoMandateRow]
    /\ reservation = [i \in Intents |-> NoReservation]
    /\ clock = 0
    /\ ArenaInit
    /\ FenceInit
    /\ ChainInit
    /\ proc = [p \in Procs |-> Idle]
    /\ reader = ReaderIdle

-----------------------------------------------------------------------------
(* What a step leaves alone, and where it goes *)

LedgerOnly  == UNCHANGED <<clock, arenaVars, fenceVars, chainVars, reader>>
ArenaOnly   == UNCHANGED <<ledgerVars, clock, fenceVars, chainVars, reader>>
FenceOnly   == UNCHANGED <<ledgerVars, clock, arenaVars, chainVars, reader>>
ChainOnly   == UNCHANGED <<ledgerVars, clock, arenaVars, fenceVars, reader>>
LocalOnly   == UNCHANGED <<ledgerVars, clock, arenaVars, fenceVars, chainVars, reader>>

WithPc(r, pc) == [r EXCEPT !.pc = pc]
WithTx(r, t) == [r EXCEPT !.tx = t]
WithResult(r, result) == [r EXCEPT !.result = result]
WithWhy(r, why) == [r EXCEPT !.why = why]

At(p, pc) == proc[p].pc = pc
Become(p, r) == proc' = [proc EXCEPT ![p] = r]
Goto(p, pc) == Become(p, WithPc(proc[p], pc))

\* The cycle of a worker, or the request of a caller, is over.  An exception
\* ends it early, before the rest of the queue and before reconcile.
EndCycle(p) == Become(p, Idle)

\* The recovery, or _execute, of a deal returns: on to the next one.
Recover(p, todo) == Become(p, Local("recover", todo, {}, NoIntent, NoMandate))
Queue(p, queue) == Become(p, Local("queue", {}, queue, NoIntent, NoMandate))
NextTarget(p) == Queue(p, proc[p].queue)

\* The first of a set of deals, in the order of created_at.
Oldest(S) ==
    {i \in S : \A j \in S \ {i} :
        \E m, n \in DOMAIN created : m < n /\ created[m] = i /\ created[n] = j}

\* X402SettlementCoordinator.execute returns to the worker or to the caller.
AfterExecute(result) == IF result = "failed" THEN "fail" ELSE "mark"
Return(p, result) ==
    Become(p, IF p \in Callers THEN Idle
              ELSE WithPc(WithResult(proc[p], result), AfterExecute(result)))

\* It releases the reservation first, and then returns "failed" or raises.
ReleaseThen(p, result, why) ==
    Become(p, WithPc(WithResult(WithWhy(proc[p], why), result), "x_release"))

-----------------------------------------------------------------------------
(* What EvmJsonRpcConfirmationReader answers.  With the fault "rpc" the node  *)
(* is out of reach, or lags behind the chain; the Blockscout explorer is only *)
(* asked about a transaction the node has no receipt of.                      *)

ReadError == [kind |-> "error", depth |-> 0]
NoReceipt == [kind |-> "none", depth |-> 0]
Receipt(kind, depth) == [kind |-> kind, depth |-> depth]

Mined(t) == chain[t] \in {"success", "reverted"}

\* The one Transfer event that the deal's payment leaves in a receipt.
Transfers(i, t) ==
    LET j == TxIntent[t] IN
    Buyer[j] = Buyer[i] /\ Seller[j] = Seller[i] /\ Amount[j] = Amount[i]

\* The explorer's answers.  A reverted transaction is an error there, not an
\* answer that the payment failed.
_read_blockscout(i, t) ==
    IF chain[t] = "success" /\ Transfers(i, t) THEN {Receipt("paid", d) : d \in 1..MaxDepth}
    ELSE IF Mined(t) THEN {ReadError}
    ELSE {NoReceipt}

\* What each call to the node may come to: an answer, an error, or the answer
\* of a node that has not seen the block yet.
_rpc(answer, behind) ==
    IF "rpc" \in Faults THEN {answer, behind, ReadError} ELSE {answer}

\* The depth counts the blocks from the receipt's own to the latest one the
\* node knows, and is never negative.
_read_sync(i, t) ==
    LET seen(d) == IF chain[t] = "reverted" THEN Receipt("reverted", d)
                   ELSE IF Transfers(i, t) THEN Receipt("paid", d)
                   ELSE ReadError
        mined == UNION {_rpc(seen(d), seen(0)) : d \in 1..MaxDepth}
    IN
    IF ~Mined(t) THEN _read_blockscout(i, t)
    ELSE IF "rpc" \in Faults THEN mined \cup _read_blockscout(i, t)
    ELSE mined

\* The transfers between buyer and seller whose calldata carries the nonce of
\* the deal: none, one, or an error when there is more than one.
_find_transaction_for_authorization_sync(i) ==
    LET matches == {t \in Txs : chain[t] = "success" /\ TxIntent[t] = i}
        found == IF matches = {} THEN {NoTx} ELSE matches
    IN
    IF Cardinality(matches) > 1 THEN {ReadError}
    ELSE UNION {_rpc(t, NoTx) : t \in found}

-----------------------------------------------------------------------------
(* AutomaticSettlementWorker: recovery of ambiguous submissions *)

\* Mutant: attempts already marked unknown are not looked for again.
UnknownTargets_Submitting ==
    {i \in Unresolved(Recorded) : attempt[i].status = "submitting"}
UnknownTargets ==
    {i \in Unresolved(Recorded) : intent[i] = "authorization_requested"}

StartCycle(w) ==
    /\ At(w, "idle")
    /\ Recover(w, UnknownTargets)
    /\ LocalOnly

\* What find_transaction_for_authorization finds stays true, so the read of the
\* attempt row that follows is the same step; an error ends the cycle.
FindTransaction(w) ==
    /\ At(w, "recover")
    /\ \E i \in proc[w].todo :
          LET open == attempt[i].status \in {"submitting", "unknown"} IN
          \E found \in _find_transaction_for_authorization_sync(i) :
             \/ /\ found = ReadError
                /\ EndCycle(w)
             \/ /\ found # ReadError
                /\ found = NoTx \/ ~open
                /\ Recover(w, proc[w].todo \ {i})
             \/ /\ found \in Txs \ {ReadError}
                /\ open
                /\ Become(w, WithTx(Local("r_submit", proc[w].todo \ {i}, {}, i, NoMandate), found))
    /\ LocalOnly

\* record_recovered_submission, one transaction at a time.
RecoverSubmit(w) ==
    LET i == proc[w].intent  t == proc[w].tx IN
    /\ At(w, "r_submit")
    /\ \/ submit_reservation(i, t) /\ Goto(w, "r_record")
       \/ ~CanSubmit(i, t) /\ EndCycle(w) /\ UNCHANGED ledgerVars
    /\ LedgerOnly

RecoverRecord(w) ==
    LET i == proc[w].intent  t == proc[w].tx IN
    /\ At(w, "r_record")
    /\ \/ record_settlement_submission(i, t, "sandbox_guest") /\ Goto(w, "r_fence")
       \/ ~CanRecordSubmission(i, t, "sandbox_guest") /\ EndCycle(w) /\ UNCHANGED arenaVars
    /\ ArenaOnly

RecoverFence(w) ==
    /\ At(w, "r_fence")
    /\ ClearFence(proc[w].intent)
    /\ Recover(w, proc[w].todo)
    /\ FenceOnly

-----------------------------------------------------------------------------
(* AutomaticSettlementWorker: the queue of authorization targets *)

AuthorizationTarget(i) == intent[i] = "authorization_requested" /\ CanClaimAttempt(i)

ScanTargets(w) ==
    /\ At(w, "recover")
    /\ proc[w].todo = {}
    /\ Queue(w, {i \in Intents : AuthorizationTarget(i)})
    /\ LocalOnly

\* Mutant: a submitted payment is consumed before it is confirmed.
Reconcile_Early(w) ==
    /\ At(w, "queue")
    /\ proc[w].queue = {}
    /\ reconcile_finalized_reservations({i \in Intents : intent[i] \in Submitted \ {"reverted"}},
                                        {i \in Intents : intent[i] = "reverted"})
    /\ EndCycle(w)
    /\ LedgerOnly

\* The queue is done without an exception: SettlementProductionWorker goes on
\* to reconcile_finalized_reservations.
Reconcile(w) ==
    /\ At(w, "queue")
    /\ proc[w].queue = {}
    /\ reconcile_finalized_reservations({i \in Intents : intent[i] \in Confirmed},
                                        {i \in Intents : intent[i] = "reverted"})
    /\ EndCycle(w)
    /\ LedgerOnly

ReadMandate(w) ==
    /\ At(w, "queue")
    /\ \E i \in Oldest(proc[w].queue) :
          LET rest == proc[w].queue \ {i} IN
          \/ \E m \in ActiveMandates(i, clock) : Become(w, Local("reserve", {}, rest, i, m))
          \/ /\ ActiveMandates(i, clock) = {}
             /\ Become(w, Local("no_mandate", {}, rest, i, NoMandate))
    /\ LocalOnly

FailUnmandated(w) ==
    LET i == proc[w].intent IN
    /\ At(w, "no_mandate")
    /\ \/ record_automatic_failure(i) /\ NextTarget(w)
       \/ ~CanRecordFailure(i) /\ EndCycle(w) /\ UNCHANGED arenaVars
    /\ ArenaOnly

\* reserve_mandate with the balances and participants of the Arena.
Reservable(m, i) ==
    CanReserve(m, i, clock, cash[Buyer[i]], participant[Seller[i]] \in {"active", "settling"})
ReserveNow(m, i) ==
    reserve_mandate(m, i, clock, cash[Buyer[i]], participant[Seller[i]] \in {"active", "settling"})

\* Refusals raise MandateRejected outside the try of _execute.
ReserveBudget(w) ==
    LET i == proc[w].intent  m == proc[w].mandate IN
    /\ At(w, "reserve")
    /\ \/ ReservationMatches(m, i) /\ Goto(w, "claim") /\ UNCHANGED ledgerVars
       \/ ReserveNow(m, i) /\ Goto(w, "claim")
       \/ /\ ~ReservationMatches(m, i) /\ ~Reservable(m, i)
          /\ EndCycle(w) /\ UNCHANGED ledgerVars
    /\ LedgerOnly

ClaimAttempt(w) ==
    LET i == proc[w].intent IN
    /\ At(w, "claim")
    /\ \/ claim_attempt(i, w) /\ Goto(w, "fence")
       \/ ~CanClaimAttempt(i) /\ NextTarget(w) /\ UNCHANGED fenceVars
    /\ FenceOnly

ClaimFence(w) ==
    LET i == proc[w].intent IN
    /\ At(w, "fence")
    /\ \/ claim_facilitator_fence(i, w, Recorded) /\ Goto(w, "sign")
       \/ ~CanClaimFence(Recorded) /\ Goto(w, "defer") /\ UNCHANGED fenceVars
    /\ FenceOnly

\* From here to MarkSubmitting an exception goes through the handler of _execute.
Defer(w) ==
    LET i == proc[w].intent IN
    /\ At(w, "defer")
    /\ \/ defer_attempt(i, w) /\ NextTarget(w)
       \/ ~CanDefer(i, w) /\ Goto(w, "h_release") /\ UNCHANGED fenceVars
    /\ FenceOnly

\* The signer has no state here: its call and the mark that follows are a step.
Sign(w) ==
    LET i == proc[w].intent IN
    /\ At(w, "sign")
    /\ \/ mark_attempt(i, w, "signed") /\ Goto(w, "mark_submitting")
       \/ /\ ~Owns(i, w) \/ "sign" \in Faults
          /\ Goto(w, "h_fence") /\ UNCHANGED fenceVars
    /\ FenceOnly

\* The ambiguity boundary: from here on nothing is released by the handler.
MarkSubmitting(w) ==
    LET i == proc[w].intent IN
    /\ At(w, "mark_submitting")
    /\ \/ mark_attempt(i, w, "submitting") /\ Goto(w, "x_reserve")
       \/ ~Owns(i, w) /\ Goto(w, "h_fence") /\ UNCHANGED fenceVars
    /\ FenceOnly

-----------------------------------------------------------------------------
(* X402SettlementCoordinator.execute *)

CoordinatorReserve(p) ==
    LET i == proc[p].intent  m == proc[p].mandate IN
    /\ At(p, "x_reserve")
    /\ \/ /\ ReservationMatches(m, i)
          /\ \/ reservation[i].status \in {"submitted", "consumed"} /\ Return(p, "submitted")
             \/ reservation[i].status = "released" /\ Return(p, "failed")
             \/ reservation[i].status = "reserved" /\ Goto(p, "verify")
          /\ UNCHANGED ledgerVars
       \/ ReserveNow(m, i) /\ Goto(p, "verify")
       \/ /\ ~ReservationMatches(m, i) /\ ~Reservable(m, i)
          /\ EndCycle(p) /\ UNCHANGED ledgerVars
    /\ LedgerOnly

\* Before anything is sent every failure releases; only a caller's own
\* payload can fail validate_payment_payload.
Verify(p) ==
    LET i == proc[p].intent IN
    /\ At(p, "verify")
    /\ \/ TRUE \in VerifyAnswers(i) /\ Goto(p, "approve")
       \/ /\ FALSE \in VerifyAnswers(i)
          /\ ReleaseThen(p, "failed", "facilitator_verification_rejected")
       \/ "timeout" \in Faults /\ ReleaseThen(p, "failed", "facilitator_unreachable")
       \/ p \in Callers /\ ReleaseThen(p, "raise", "payment_pre_submission_failed")
    /\ LocalOnly

\* A release that is refused raises; inside the try that means a second
\* release, for the handler's reason, before the exception leaves.
CoordinatorRelease(p) ==
    LET i == proc[p].intent  why == proc[p].why IN
    /\ At(p, "x_release")
    /\ \/ /\ release_reservation(i, why)
          /\ IF proc[p].result = "failed" THEN Return(p, "failed") ELSE EndCycle(p)
       \/ /\ ~CanRelease(i, why)
          /\ IF why = "facilitator_verification_rejected"
             THEN ReleaseThen(p, "raise", "payment_pre_submission_failed") ELSE EndCycle(p)
          /\ UNCHANGED ledgerVars
    /\ LedgerOnly

Approve(p) ==
    LET i == proc[p].intent IN
    /\ At(p, "approve")
    /\ \/ record_settlement_approval(i, "payment_mandate") /\ Goto(p, "settle")
       \/ /\ ~CanApprove(i, "payment_mandate")
          /\ ReleaseThen(p, "raise", "payment_pre_submission_failed") /\ UNCHANGED arenaVars
    /\ ArenaOnly

SendSettle(p) ==
    /\ At(p, "settle")
    /\ Send(p, proc[p].intent)
    /\ Goto(p, "wait")
    /\ ChainOnly

\* Mutants: a timeout of /settle counts as a refusal; it ends the deal at once.
Timeout_Releases(p) ==
    At(p, "wait") /\ ReleaseThen(p, "failed", "facilitator_unreachable") /\ LocalOnly
Timeout_Fails(p) ==
    At(p, "wait") /\ Return(p, "failed") /\ LocalOnly

\* The client of /settle gives up; the relay may still broadcast.
Timeout(p) ==
    /\ At(p, "wait")
    /\ "timeout" \in Faults
    /\ Return(p, "unknown")
    /\ LocalOnly

\* After settle_started a failure to persist is an unknown submission.
RecordSubmission(p) ==
    LET i == proc[p].intent  t == proc[p].tx IN
    /\ At(p, "record")
    /\ \/ record_settlement_submission(i, t, "sandbox_guest") /\ Goto(p, "submit")
       \/ /\ ~CanRecordSubmission(i, t, "sandbox_guest")
          /\ Return(p, "unknown") /\ UNCHANGED arenaVars
    /\ ArenaOnly

\* Mutant: the submission is recorded in the Arena only.
SubmitReservation_Dropped(p) ==
    At(p, "submit") /\ Return(p, "submitted") /\ LocalOnly

SubmitReservation(p) ==
    LET i == proc[p].intent  t == proc[p].tx IN
    /\ At(p, "submit")
    /\ \/ submit_reservation(i, t) /\ Return(p, "submitted")
       \/ ~CanSubmit(i, t) /\ Return(p, "unknown") /\ UNCHANGED ledgerVars
    /\ LedgerOnly

-----------------------------------------------------------------------------
(* The end of _execute, and its handler *)

FailSettlement(w) ==
    LET i == proc[w].intent IN
    /\ At(w, "fail")
    /\ \/ record_automatic_failure(i) /\ Goto(w, "mark")
       \/ ~CanRecordFailure(i) /\ EndCycle(w) /\ UNCHANGED arenaVars
    /\ ArenaOnly

MarkResult(w) ==
    LET i == proc[w].intent  result == proc[w].result IN
    /\ At(w, "mark")
    /\ \/ /\ mark_attempt(i, w, result)
          /\ IF result = "unknown" THEN NextTarget(w) ELSE Goto(w, "unfence")
       \/ ~Owns(i, w) /\ EndCycle(w) /\ UNCHANGED fenceVars
    /\ FenceOnly

ReleaseFence(w) ==
    LET i == proc[w].intent IN
    /\ At(w, "unfence")
    /\ \/ release_facilitator_fence(i, w) /\ NextTarget(w)
       \/ ~HoldsFence(i, w) /\ EndCycle(w) /\ UNCHANGED fenceVars
    /\ FenceOnly

HandlerFence(w) ==
    LET i == proc[w].intent IN
    /\ At(w, "h_fence")
    /\ \/ release_facilitator_fence(i, w) /\ Goto(w, "h_release")
       \/ ~HoldsFence(i, w) /\ EndCycle(w) /\ UNCHANGED fenceVars
    /\ FenceOnly

HandlerRelease(w) ==
    LET i == proc[w].intent  why == "automatic_settlement_pre_submission_failed" IN
    /\ At(w, "h_release")
    /\ \/ release_reservation(i, why) /\ Goto(w, "h_mark")
       \/ ~CanRelease(i, why) /\ EndCycle(w) /\ UNCHANGED ledgerVars
    /\ LedgerOnly

HandlerMark(w) ==
    LET i == proc[w].intent IN
    /\ At(w, "h_mark")
    /\ \/ mark_attempt(i, w, "failed") /\ Goto(w, "h_fail")
       \/ ~Owns(i, w) /\ EndCycle(w) /\ UNCHANGED fenceVars
    /\ FenceOnly

HandlerFail(w) ==
    LET i == proc[w].intent IN
    /\ At(w, "h_fail")
    /\ EndCycle(w)
    /\ \/ record_automatic_failure(i)
       \/ ~CanRecordFailure(i) /\ UNCHANGED arenaVars
    /\ ArenaOnly

-----------------------------------------------------------------------------
(* The facilitator's answers *)

Waiting(p, i) == At(p, "wait") /\ proc[p].intent = i

RelayBroadcast(p, i, t) ==
    /\ Broadcast(p, i, t)
    /\ \/ Waiting(p, i) /\ Become(p, WithPc(WithTx(proc[p], t), "record"))
       \/ ~Waiting(p, i) /\ UNCHANGED proc
    /\ ChainOnly

RelayRefuse(p, i) ==
    /\ Refuse(p, i)
    /\ \/ Waiting(p, i) /\ ReleaseThen(p, "failed", "facilitator_rejected")
       \/ ~Waiting(p, i) /\ UNCHANGED proc
    /\ ChainOnly

RelayDrop(p, i) ==
    /\ Drop(p, i)
    /\ \/ Waiting(p, i) /\ Return(p, "unknown")
       \/ ~Waiting(p, i) /\ UNCHANGED proc
    /\ ChainOnly

-----------------------------------------------------------------------------
(* SettlementRecoveryWorker of the Arena, which follows the chain *)

ReaderFrame == UNCHANGED <<ledgerVars, clock, fenceVars, chainVars, proc>>
ReaderGo(pc, i, depth) == reader' = ReaderAt(pc, reader.queue, i, depth)
ReaderNext == ReaderGo("target", NoIntent, 0)

Recoverable(i) ==
    intent[i] \in {"submitted", "confirmation_timeout", "chain_confirmed_uncommitted"}

\* The status of each target is the one read here, however old when it is used.
ReaderScan ==
    LET targets == {i \in Intents : Recoverable(i)} IN
    /\ reader.pc = "scan"
    /\ targets # {}
    /\ reader' = ReaderAt("target", {[intent |-> i, status |-> intent[i]] : i \in targets},
                          NoIntent, 0)
    /\ UNCHANGED arenaVars
    /\ ReaderFrame

\* What _recover does with a target.
ReaderAnswer(target, rest) ==
    LET i == target.intent  t == submission[i].tx
        go(pc, depth) == reader' = ReaderAt(pc, rest, i, depth)
        skip == reader' = ReaderAt("target", rest, NoIntent, 0)
    IN
    \/ target.status = "chain_confirmed_uncommitted" /\ go("commit", 0)
    \/ /\ target.status # "chain_confirmed_uncommitted"
       /\ \E answer \in _read_sync(i, t) :
             \/ answer.kind = "error" /\ reader' = ReaderIdle
             \/ answer.kind = "none" /\ skip
             \/ answer.kind = "reverted" /\ go("revert", 0)
             \/ answer.kind = "paid" /\ answer.depth < RequiredConfirmations /\ skip
             \/ /\ answer.kind = "paid" /\ answer.depth >= RequiredConfirmations
                /\ go("confirm", answer.depth)

ReaderTarget ==
    /\ reader.pc = "target"
    /\ \/ reader.queue = {} /\ reader' = ReaderIdle
       \/ \E target \in reader.queue :
             /\ target.intent \in Oldest({other.intent : other \in reader.queue})
             /\ ReaderAnswer(target, reader.queue \ {target})
    /\ UNCHANGED arenaVars
    /\ ReaderFrame

ReaderRevert ==
    LET i == reader.intent IN
    /\ reader.pc = "revert"
    /\ \/ record_chain_reverted(i, submission[i].tx) /\ ReaderNext
       \/ /\ ~CanRecordReverted(i, submission[i].tx)
          /\ reader' = ReaderIdle /\ UNCHANGED arenaVars
    /\ ReaderFrame

ReaderConfirm ==
    LET i == reader.intent IN
    /\ reader.pc = "confirm"
    /\ \/ /\ record_chain_confirmation(i, submission[i].tx, reader.depth)
          /\ ReaderGo("commit", i, 0)
       \/ /\ ~CanRecordConfirmation(i, submission[i].tx, reader.depth)
          /\ reader' = ReaderIdle /\ UNCHANGED arenaVars
    /\ ReaderFrame

CanCommit(i) ==
    \/ intent[i] = "inventory_committed"
    \/ intent[i] = "chain_confirmed_uncommitted" /\ confirmation[i] # 0 /\ Covered(i)

ReaderCommit ==
    LET i == reader.intent IN
    /\ reader.pc = "commit"
    /\ \/ commit_confirmed_inventory(i) /\ ReaderNext
       \/ ~CanCommit(i) /\ reader' = ReaderIdle /\ UNCHANGED arenaVars
    /\ ReaderFrame

ReaderStep == ReaderScan \/ ReaderTarget \/ ReaderRevert \/ ReaderConfirm \/ ReaderCommit

-----------------------------------------------------------------------------
(* The environment: the market, the players, time and crashes *)

MarketStep ==
    /\ \/ materialize_agent_market_engagements
       \/ complete_hosted_run
       \/ advance_round_or_game
       \/ \E i \in Intents : Engage(i) \/ EndNegotiation(i) \/ Accept(i)
    /\ UNCHANGED <<ledgerVars, clock, fenceVars, chainVars, proc, reader>>

PlayerStep ==
    /\ \E m \in Mandates : create_mandate(m) \/ revoke_mandate(m)
    /\ UNCHANGED <<clock, arenaVars, fenceVars, chainVars, proc, reader>>

\* POST /api/v1/x402/settlement-intents/{id}/execute
ExecuteRequest(c, i) ==
    /\ At(c, "idle")
    /\ intent[i] # "none"
    /\ \E m \in ActiveMandates(i, clock) :
          Become(c, Local("x_reserve", {}, {}, i, m))
    /\ LocalOnly

\* A lease outlives the calls made under it (60 s against 20 s for each of
\* them), unless its owner stalls.  The lease of an attempt that is past
\* "signed" is never read again.
MayExpire(w, i) == "stall" \in Faults \/ proc[w].intent # i

LeaseExpires ==
    /\ \/ \E i \in Intents :
             /\ attempt[i].status \in {"reserved", "signed"}
             /\ MayExpire(attempt[i].owner, i)
             /\ ExpireAttempt(i)
       \/ fence # NoFence /\ MayExpire(fence.owner, fence.intent) /\ ExpireFence
    /\ UNCHANGED <<ledgerVars, clock, arenaVars, chainVars, proc, reader>>

Crash ==
    /\ "crash" \in Faults
    /\ \/ \E w \in Workers : ~At(w, "idle") /\ EndCycle(w) /\ UNCHANGED reader
       \/ reader.pc # "scan" /\ reader' = ReaderIdle /\ UNCHANGED proc
    /\ UNCHANGED <<ledgerVars, clock, arenaVars, fenceVars, chainVars>>

MineStep(t) ==
    Mine(t) /\ UNCHANGED <<ledgerVars, clock, arenaVars, fenceVars, proc, reader>>

-----------------------------------------------------------------------------
CoordinatorStep(p) ==
    \/ CoordinatorReserve(p) \/ Verify(p) \/ CoordinatorRelease(p) \/ Approve(p)
    \/ SendSettle(p) \/ RecordSubmission(p) \/ SubmitReservation(p)

WorkerStep(w) ==
    \/ StartCycle(w) \/ FindTransaction(w)
    \/ RecoverSubmit(w) \/ RecoverRecord(w) \/ RecoverFence(w)
    \/ ScanTargets(w) \/ Reconcile(w) \/ ReadMandate(w) \/ FailUnmandated(w)
    \/ ReserveBudget(w) \/ ClaimAttempt(w) \/ ClaimFence(w) \/ Defer(w)
    \/ Sign(w) \/ MarkSubmitting(w)
    \/ CoordinatorStep(w)
    \/ FailSettlement(w) \/ MarkResult(w) \/ ReleaseFence(w)
    \/ HandlerFence(w) \/ HandlerRelease(w) \/ HandlerMark(w) \/ HandlerFail(w)

RelayStep(p, i) ==
    \/ \E t \in Txs : RelayBroadcast(p, i, t)
    \/ RelayRefuse(p, i)
    \/ RelayDrop(p, i)

SettlementNext ==
    \/ \E w \in Workers : WorkerStep(w)
    \/ \E c \in Callers : CoordinatorStep(c) \/ \E i \in Intents : ExecuteRequest(c, i)
    \/ \E p \in Procs : Timeout(p) \/ \E i \in Intents : RelayStep(p, i)
    \/ \E t \in Txs : MineStep(t)
    \/ ReaderStep
    \/ LeaseExpires
    \/ Crash

PipelineNext == SettlementNext \/ MarketStep \/ PlayerStep

PipelineSpec == PipelineInit /\ [][PipelineNext]_vars

\* The loops of the two worker processes keep running, relays and the chain
\* work off what they hold, and time passes.  Nothing is assumed of players,
\* Agents, timeouts or crashes.
PipelineFairness ==
    /\ \A w \in Workers : WF_vars(WorkerStep(w))
    /\ WF_vars(\E p \in Procs, i \in Intents : RelayStep(p, i))
    /\ WF_vars(\E t \in Txs : MineStep(t))
    /\ WF_vars(ReaderStep)
    /\ WF_vars(LeaseExpires)

FairPipelineSpec == PipelineSpec /\ PipelineFairness

-----------------------------------------------------------------------------
(* Properties *)

\* A payment for the deal is on the chain, or may still get there.
InFlight(i) ==
    \/ \E p \in Procs : <<p, i>> \in relay
    \/ \E t \in Txs : TxIntent[t] = i /\ chain[t] \in {"pending", "success"}

\* The budget of a payment that may have been sent stays locked, whatever
\* crashed, timed out or was refused in the meantime (coordinator.py: "Keep
\* the reservation locked for recovery instead of making the budget spendable
\* again").
BudgetLocked ==
    \A i \in Intents : InFlight(i) =>
        reservation[i].status \in {"reserved", "submitted", "consumed"}

\* A deal whose payment may have been sent is never written off: its intent is
\* not failed or reverted while a transaction that pays it can succeed.
PaidNeverFailed ==
    \A i \in Intents : InFlight(i) => intent[i] \notin {"authorization_failed", "reverted"}

\* The three books agree with the chain: goods move and budget is consumed
\* only for a deal whose own transaction succeeded.
BooksMatchChain ==
    \A i \in Intents :
        /\ intent[i] \in Confirmed =>
              chain[submission[i].tx] = "success" /\ TxIntent[submission[i].tx] = i
        /\ reservation[i].status = "consumed" =>
              chain[reservation[i].tx] = "success" /\ reservation[i].tx = submission[i].tx

\* The transactions sent for a deal, and the requests still to be sent by a relay.
Sendings(i) ==
    {<<"sent", t>> : t \in {t \in Txs : TxIntent[t] = i /\ chain[t] # "none"}}
      \cup {<<"to_send", p>> : p \in {p \in Procs : <<p, i>> \in relay}}

\* One authorization is broadcast at most once: no crash, timeout or second
\* worker makes a relay send the same payment again (roadmap.md: an unknown
\* result is never blindly paid again).
BroadcastOnce == \A i \in Intents : \A s, t \in Sendings(i) : s = t

\* Broadcasts of one facilitator account are serial across workers and
\* restarts: at most one attempt is unresolved at any time (migration 044).
SerialBroadcast == \A i, j \in Unresolved(Recorded) : i = j

\* Every frozen deal ends: it is settled, or it fails, and the round goes on.
DealsEnd == \A i \in Intents : (intent[i] \in Live) ~> (intent[i] \in Terminal)

\* What a deal reserved is accounted for: once the deal has ended its budget
\* is consumed or given back, and does not stay locked for good.
BudgetSettled ==
    \A i \in Intents :
        (intent[i] \in Terminal) ~> (reservation[i].status \in {"none", "consumed", "released"})
=============================================================================
