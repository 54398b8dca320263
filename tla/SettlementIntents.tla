------------------------- MODULE SettlementIntents -------------------------
(***************************************************************************)
(* The Arena side of a deal: engagement slots, negotiation, the frozen     *)
(* SettlementIntent with its approval, submission and confirmation rows,   *)
(* and the cash and holdings the inventory commit moves.  It models the    *)
(* settlement transactions of PostgresPawnhouseRepository; each action is  *)
(* one transaction, and a call the code refuses changes nothing.           *)
(*                                                                         *)
(* Next is the most general client: approvals, submissions, chain evidence *)
(* and failures may arrive in any order, repeated, from any caller.        *)
(***************************************************************************)
EXTENDS DealTerms, Sequences

CONSTANTS
    Free,                   \* an unclaimed slot
    Modes,                  \* the authorizationMode a Game may be created with
    RequiredConfirmations,  \* required_confirmations
    MaxDepth,               \* bound of the confirmation count a reader reports
    Opening,                \* Opening[i]: opening_price_atomic of the buyer's request
    InitCash,               \* InitCash[p]: starting cash_atomic
    InitHolding             \* InitHolding[p][g]: starting quantity

ASSUME IntentsAssumption ==
    /\ Free \notin Intents
    /\ Modes \subseteq {"none", "single_eip3009"}
    /\ RequiredConfirmations \in Nat \ {0}
    /\ MaxDepth \in Nat
    /\ Opening \in [Intents -> Nat]
    /\ InitCash \in [Participants -> Nat]
    /\ InitHolding \in [Participants -> [Goods -> Nat]]

VARIABLES
    mode,           \* authorizationMode of the Game, frozen in its config snapshot
    round,          \* games.current_round; NRounds + 1 once the Game is completed
    phase,          \* rounds.phase once the round's requests are in: negotiate, settle
    run,            \* runtime_runs.status of the round: running, completed
    slot,           \* slot[p]: the deal that holds p's participant_round_slot
    negotiation,    \* negotiation[i]: negotiations.status
    pairing,        \* pairing[i]: pairings.status
    intent,         \* intent[i]: settlement_intents.status
    approval,       \* approval[i]: settlement_approvals.approval_source
    submission,     \* submission[i]: settlement_submissions.tx_hash and source
    confirmation,   \* confirmation[i]: confirmation_count of the stored evidence, 0 if none
    participant,    \* participant[p]: game_participants.status
    cash,           \* balances.cash_atomic
    holding,        \* holdings.quantity
    created         \* the frozen intents in the order of created_at

marketVars == <<mode, round, phase, run, slot>>
dealVars == <<negotiation, pairing, participant>>
assetVars == <<cash, holding>>
intentVars == <<intent, approval, submission, confirmation, created>>
arenaVars == <<marketVars, dealVars, assetVars, intentVars>>

ApprovalSources == {"operator_cli", "payment_mandate"}
SubmissionSources == {"wallet", "sandbox_guest"}
NoSubmission == [tx |-> NoTx, source |-> "none"]

IntentStatus == {"none", "authorization_requested", "submitted", "confirmation_timeout",
                 "chain_confirmed_uncommitted", "inventory_committed",
                 "authorization_failed", "reverted"}
Terminal == {"inventory_committed", "authorization_failed", "reverted"}
\* A frozen intent that has not reached a terminal status.
Live == IntentStatus \ (Terminal \cup {"none"})
PairingStatus == {"none", "negotiating", "rejected", "settling", "settled", "settlement_failed"}

ArenaTypeOK ==
    /\ mode \in Modes
    /\ round \in 1..(NRounds + 1)
    /\ phase \in {"negotiate", "settle"}
    /\ run \in {"running", "completed"}
    /\ slot \in [Participants -> Intents \cup {Free}]
    /\ negotiation \in [Intents -> {"none", "engaged", "active", "rejected",
                                    "accepted_pending_settlement",
                                    "settled", "settlement_failed"}]
    /\ pairing \in [Intents -> PairingStatus]
    /\ intent \in [Intents -> IntentStatus]
    /\ approval \in [Intents -> ApprovalSources \cup {"none"}]
    /\ submission \in [Intents -> [tx : Txs \cup {NoTx}, source : SubmissionSources \cup {"none"}]]
    /\ confirmation \in [Intents -> 0..MaxDepth]
    /\ participant \in [Participants -> {"active", "settling"}]
    /\ cash \in [Participants -> Int]
    /\ holding \in [Participants -> [Goods -> Int]]
    /\ created \in Seq(Intents)

ArenaInit ==
    /\ mode \in Modes
    /\ round = 1
    /\ phase = "negotiate"
    /\ run = "running"
    /\ slot = [p \in Participants |-> Free]
    /\ negotiation = [i \in Intents |-> "none"]
    /\ pairing = [i \in Intents |-> "none"]
    /\ intent = [i \in Intents |-> "none"]
    /\ approval = [i \in Intents |-> "none"]
    /\ submission = [i \in Intents |-> NoSubmission]
    /\ confirmation = [i \in Intents |-> 0]
    /\ participant = [p \in Participants |-> "active"]
    /\ cash = InitCash
    /\ holding = InitHolding
    /\ created = << >>

-----------------------------------------------------------------------------
(* Engagement, negotiation and the freeze *)

\* Mutant: the busy check covers the buyer alone.
SlotsFree_BuyerOnly(i) == slot[Buyer[i]] = Free
SlotsFree(i) == \A p \in Parties(i) : slot[p] = Free

\* The seller's Agent engages a buyer's request: both round slots must be
\* available and are reserved for the engagement.
Engage(i) ==
    /\ RoundOf[i] = round
    /\ phase = "negotiate"
    /\ negotiation[i] = "none"
    /\ cash[Buyer[i]] >= Opening[i]
    /\ holding[Seller[i]][Good[i]] >= 1
    /\ SlotsFree(i)
    /\ slot' = [p \in Participants |-> IF p \in Parties(i) THEN i ELSE slot[p]]
    /\ negotiation' = [negotiation EXCEPT ![i] = "engaged"]
    /\ UNCHANGED <<mode, round, phase, run, pairing, participant, assetVars, intentVars>>

\* The coordinator creates the pairing and the negotiation of every engagement
\* of the round that has none.
materialize_agent_market_engagements ==
    LET rows == {i \in Intents : RoundOf[i] = round /\ negotiation[i] = "engaged"} IN
    /\ run = "running"
    /\ rows # {}
    /\ negotiation' = [i \in Intents |-> IF i \in rows THEN "active" ELSE negotiation[i]]
    /\ pairing' = [i \in Intents |-> IF i \in rows THEN "negotiating" ELSE pairing[i]]
    /\ UNCHANGED <<marketVars, participant, assetVars, intentVars>>

\* A rejection, or an expired action deadline: the slots become available again.
EndNegotiation(i) ==
    /\ negotiation[i] = "active"
    /\ negotiation' = [negotiation EXCEPT ![i] = "rejected"]
    /\ pairing' = [pairing EXCEPT ![i] = "rejected"]
    /\ slot' = [p \in Participants |-> IF slot[p] = i THEN Free ELSE slot[p]]
    /\ UNCHANGED <<mode, round, phase, run, participant, assetVars, intentVars>>

\* The two checks of the assets: at the freeze, and again at the commit.
Covered(i) ==
    /\ cash[Buyer[i]] >= Amount[i]
    /\ holding[Seller[i]][Good[i]] >= Quantity[i]

\* _freeze_settlement_intent of an accepted negotiation.
FreezeIntent(i) ==
    /\ Covered(i)
    /\ intent' = [intent EXCEPT ![i] = "authorization_requested"]
    /\ created' = Append(created, i)
    /\ participant' = [p \in Participants |->
                          IF p \in Parties(i) THEN "settling" ELSE participant[p]]
    /\ pairing' = [pairing EXCEPT ![i] = "settling"]
    /\ negotiation' = [negotiation EXCEPT ![i] = "accepted_pending_settlement"]
    /\ phase' = "settle"
    /\ UNCHANGED <<approval, submission, confirmation>>

\* Acceptance consumes the slots and freezes the intent in one transaction;
\* without a settlement chain the deal fails at once.
Accept(i) ==
    /\ negotiation[i] = "active"
    /\ \/ /\ mode = "none"
          /\ negotiation' = [negotiation EXCEPT ![i] = "settlement_failed"]
          /\ pairing' = [pairing EXCEPT ![i] = "settlement_failed"]
          /\ UNCHANGED <<phase, participant, intentVars>>
       \/ mode # "none" /\ FreezeIntent(i)
    /\ UNCHANGED <<mode, round, run, slot, assetVars>>

\* The coordinator ends its run once the negotiations it follows have ended.
complete_hosted_run ==
    /\ run = "running"
    /\ \A i \in Intents : negotiation[i] # "active"
    /\ run' = "completed"
    /\ UNCHANGED <<mode, round, phase, slot, dealVars, assetVars, intentVars>>

\* Mutant: settling pairings are not waited for.
RoundDone_Settling ==
    \A i \in Intents : RoundOf[i] = round => negotiation[i] # "active"
RoundDone ==
    \A i \in Intents : RoundOf[i] = round =>
        negotiation[i] # "active" /\ pairing[i] # "settling"

GameRunning == round <= NRounds

\* Close the round, drop its unfinished engagements and open the next one (or
\* finish the Game); the slots of a round are rows of that round.
advance_round_or_game ==
    /\ GameRunning
    /\ run = "completed"
    /\ RoundDone
    /\ round' = round + 1
    /\ phase' = "negotiate"
    /\ run' = "running"
    /\ slot' = [p \in Participants |-> Free]
    /\ UNCHANGED <<mode, dealVars, assetVars, intentVars>>

-----------------------------------------------------------------------------
(* Approval and submission *)

CanApprove(i, source) ==
    IF approval[i] = "none" THEN intent[i] = "authorization_requested"
                            ELSE approval[i] = source

record_settlement_approval(i, source) ==
    /\ CanApprove(i, source)
    /\ approval' = [approval EXCEPT ![i] = source]
    /\ UNCHANGED <<marketVars, dealVars, assetVars, intent, submission, confirmation, created>>

\* tx_hash is UNIQUE in settlement_submissions.
CanRecordSubmission(i, t, source) ==
    IF submission[i] # NoSubmission
    THEN submission[i] = [tx |-> t, source |-> source]
    ELSE /\ approval[i] # "none"
         /\ intent[i] \in {"authorization_requested", "confirmation_timeout"}
         /\ \A j \in Intents : submission[j].tx # t

record_settlement_submission(i, t, source) ==
    /\ CanRecordSubmission(i, t, source)
    /\ submission' = [submission EXCEPT ![i] = [tx |-> t, source |-> source]]
    /\ intent' = IF submission[i] = NoSubmission
                 THEN [intent EXCEPT ![i] = "submitted"] ELSE intent
    /\ UNCHANGED <<marketVars, dealVars, assetVars, approval, confirmation, created>>

mark_confirmation_timeout(i) ==
    /\ intent[i] \in {"submitted", "confirmation_timeout"}
    /\ intent' = [intent EXCEPT ![i] = "confirmation_timeout"]
    /\ UNCHANGED <<marketVars, dealVars, assetVars, approval, submission, confirmation, created>>

-----------------------------------------------------------------------------
(* The four ways a deal ends *)

\* Mutant: the negotiation stays accepted_pending_settlement.
CloseDeal_PairingOnly(i, status) ==
    pairing' = [pairing EXCEPT ![i] = status] /\ UNCHANGED negotiation

\* Close the pairing and the negotiation of a deal.
CloseDeal(i, status) ==
    /\ pairing' = [pairing EXCEPT ![i] = status]
    /\ negotiation' = [negotiation EXCEPT ![i] =
                          IF @ = "accepted_pending_settlement" THEN status ELSE @]

ReleasedParties(i) ==
    [p \in Participants |-> IF p \in Parties(i) THEN "active" ELSE participant[p]]

CanRecordFailure(i) == intent[i] \in {"authorization_requested", "authorization_failed"}

record_automatic_failure(i) ==
    /\ CanRecordFailure(i)
    /\ intent' = [intent EXCEPT ![i] = "authorization_failed"]
    /\ CloseDeal(i, "settlement_failed")
    /\ participant' = IF intent[i] = "authorization_requested" THEN ReleasedParties(i)
                                                              ELSE participant
    /\ UNCHANGED <<marketVars, assetVars, approval, submission, confirmation, created>>

\* Mutant: the status of the intent is not checked.
CanRecordReverted_AnyStatus(i, t) ==
    submission[i] # NoSubmission /\ submission[i].tx = t
CanRecordReverted(i, t) ==
    /\ submission[i] # NoSubmission
    /\ submission[i].tx = t
    /\ intent[i] \in {"submitted", "confirmation_timeout", "reverted"}

record_chain_reverted(i, t) ==
    /\ CanRecordReverted(i, t)
    /\ intent' = [intent EXCEPT ![i] = "reverted"]
    /\ CloseDeal(i, "settlement_failed")
    /\ participant' = IF intent[i] # "reverted" THEN ReleasedParties(i) ELSE participant
    /\ UNCHANGED <<marketVars, assetVars, approval, submission, confirmation, created>>

\* The evidence hash covers the confirmation count, so evidence that was read
\* at another depth conflicts with the stored one.
CanRecordConfirmation(i, t, depth) ==
    /\ submission[i] # NoSubmission
    /\ submission[i].tx = t
    /\ depth >= RequiredConfirmations
    /\ IF confirmation[i] # 0
       THEN confirmation[i] = depth
       ELSE intent[i] \in {"submitted", "confirmation_timeout"}

record_chain_confirmation(i, t, depth) ==
    /\ CanRecordConfirmation(i, t, depth)
    /\ confirmation' = [confirmation EXCEPT ![i] = depth]
    /\ intent' = IF confirmation[i] = 0
                 THEN [intent EXCEPT ![i] = "chain_confirmed_uncommitted"] ELSE intent
    /\ UNCHANGED <<marketVars, dealVars, assetVars, approval, submission, created>>

\* Mutant: the seller is not paid.
MoveAssets_SellerUnpaid(i) ==
    /\ cash' = [cash EXCEPT ![Buyer[i]] = @ - Amount[i]]
    /\ holding' = [holding EXCEPT ![Buyer[i]][Good[i]] = @ + Quantity[i],
                                  ![Seller[i]][Good[i]] = @ - Quantity[i]]
MoveAssets(i) ==
    /\ cash' = [cash EXCEPT ![Buyer[i]] = @ - Amount[i], ![Seller[i]] = @ + Amount[i]]
    /\ holding' = [holding EXCEPT ![Buyer[i]][Good[i]] = @ + Quantity[i],
                                  ![Seller[i]][Good[i]] = @ - Quantity[i]]

\* An existing commit is returned as it is (and its pairing closed again).
commit_confirmed_inventory(i) ==
    /\ \/ intent[i] = "inventory_committed" /\ UNCHANGED <<assetVars, participant>>
       \/ /\ intent[i] = "chain_confirmed_uncommitted"
          /\ confirmation[i] # 0
          /\ Covered(i)
          /\ MoveAssets(i)
          /\ participant' = ReleasedParties(i)
    /\ intent' = [intent EXCEPT ![i] = "inventory_committed"]
    /\ CloseDeal(i, "settled")
    /\ UNCHANGED <<marketVars, approval, submission, confirmation, created>>

-----------------------------------------------------------------------------
ArenaNext ==
    \/ materialize_agent_market_engagements
    \/ complete_hosted_run
    \/ advance_round_or_game
    \/ \E i \in Intents :
          \/ Engage(i) \/ EndNegotiation(i) \/ Accept(i)
          \/ \E source \in ApprovalSources : record_settlement_approval(i, source)
          \/ \E t \in Txs, source \in SubmissionSources :
                record_settlement_submission(i, t, source)
          \/ mark_confirmation_timeout(i)
          \/ record_automatic_failure(i)
          \/ \E t \in Txs : record_chain_reverted(i, t)
          \/ \E t \in Txs, depth \in 1..MaxDepth : record_chain_confirmation(i, t, depth)
          \/ commit_confirmed_inventory(i)

ArenaSpec == ArenaInit /\ [][ArenaNext]_arenaVars

-----------------------------------------------------------------------------
(* Properties *)

Submitted == {"submitted", "confirmation_timeout", "chain_confirmed_uncommitted",
              "inventory_committed", "reverted"}
Confirmed == {"chain_confirmed_uncommitted", "inventory_committed"}

\* A deal that still needs its parties' slots in the current round.
Holding(i) ==
    \/ negotiation[i] = "engaged" /\ RoundOf[i] = round
    \/ negotiation[i] = "active"
    \/ intent[i] \in Live

\* Whatever is being negotiated or settled belongs to the current round and
\* holds the slots of both its parties: no participant is in two deals at once
\* and no round closes over an unfinished one.
SlotsHeld ==
    \A i \in Intents : Holding(i) =>
        RoundOf[i] = round /\ \A p \in Parties(i) : slot[p] = i

\* commit_confirmed_inventory never raises buyer_cash_changed_before_commit or
\* seller_inventory_changed_before_commit: nothing can spend the assets between
\* the freeze and the commit, although neither of them is set aside.
CommitNeverRefused == \A i \in Intents : intent[i] \in Live => Covered(i)

\* The four rows of a deal tell one story: the pairing, the negotiation and
\* the parties' status follow the intent through every path to the end.
DealRowsAgree ==
    /\ \A i \in Intents :
          /\ (pairing[i] = "settling") <=> (intent[i] \in Live)
          /\ (negotiation[i] = "accepted_pending_settlement") <=> (intent[i] \in Live)
          /\ (pairing[i] = "settled") <=> (intent[i] = "inventory_committed")
          /\ (negotiation[i] = "settled") <=> (intent[i] = "inventory_committed")
          /\ intent[i] \in {"authorization_failed", "reverted"} =>
                pairing[i] = "settlement_failed" /\ negotiation[i] = "settlement_failed"
    /\ \A p \in Participants :
          (participant[p] = "settling") <=>
              (\E i \in Intents : intent[i] \in Live /\ p \in Parties(i))

\* Each status rests on its evidence: a deal with a recorded transaction can
\* no longer be written off as failed before submission, goods only move on a
\* confirmation deep enough, and no transaction pays two deals.
EvidenceComplete ==
    \A i \in Intents :
        /\ (intent[i] \in Submitted) <=> (submission[i].tx # NoTx)
        /\ submission[i].tx # NoTx => approval[i] # "none"
        /\ (intent[i] \in Confirmed) <=> (confirmation[i] # 0)
        /\ confirmation[i] # 0 => confirmation[i] >= RequiredConfirmations
        /\ \A j \in Intents \ {i} :
              submission[i].tx # NoTx => submission[j].tx # submission[i].tx

Moves == {<<"none", "authorization_requested">>,
          <<"authorization_requested", "authorization_failed">>,
          <<"authorization_requested", "submitted">>,
          <<"submitted", "confirmation_timeout">>,
          <<"submitted", "reverted">>, <<"confirmation_timeout", "reverted">>,
          <<"submitted", "chain_confirmed_uncommitted">>,
          <<"confirmation_timeout", "chain_confirmed_uncommitted">>,
          <<"chain_confirmed_uncommitted", "inventory_committed">>}

\* What ForwardOnly says of one deal in one step.
Forward(i) ==
    /\ intent'[i] = intent[i] \/ <<intent[i], intent'[i]>> \in Moves
    /\ approval[i] # "none" => approval'[i] = approval[i]
    /\ submission[i] # NoSubmission => submission'[i] = submission[i]
    /\ confirmation[i] # 0 => confirmation'[i] = confirmation[i]

\* Statuses only move forward, one deal per transaction, and the approval,
\* submission and confirmation rows are written once and never rewritten
\* (arena-settlement-integration.md: submitted, chain_confirmed_uncommitted
\* and inventory_committed only advance one way).
ForwardOnly == [][\A i \in Intents : Forward(i)]_arenaVars

-----------------------------------------------------------------------------
(* The inductive invariant *)

\* Deals of later rounds have not started, and an absent transaction means an
\* absent submission row.
Started ==
    \A i \in Intents :
        /\ negotiation[i] # "none" => RoundOf[i] <= round
        /\ submission[i].tx = NoTx => submission[i] = NoSubmission

ArenaInv ==
    /\ ArenaTypeOK /\ Started
    /\ SlotsHeld /\ CommitNeverRefused /\ DealRowsAgree /\ EvidenceComplete
=============================================================================
