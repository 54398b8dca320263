------------------------- MODULE SettlementInvariants -------------------------
(***************************************************************************)
(* The inductive invariant of the composed pipeline, and what a step of it *)
(* does to each of the parts the invariant speaks of.  The lemmas about the*)
(* single steps are in SettlementPipeline_proofs and the theorems in       *)
(* Settlement_proofs.                                                      *)
(***************************************************************************)
EXTENDS SettlementPipeline

\* The calls a process may be about to make.
Pcs == {"idle", "recover", "queue", "r_submit", "r_record", "r_fence", "no_mandate", "reserve",
        "claim", "fence", "defer", "sign", "mark_submitting", "x_reserve", "verify", "x_release",
        "approve", "settle", "wait", "record", "submit", "fail", "mark", "unfence", "h_fence",
        "h_release", "h_mark", "h_fail"}
Results == {"none", "submitted", "failed", "unknown", "raise"}
LocalState ==
    [pc : Pcs, todo : SUBSET Intents, queue : SUBSET Intents,
     intent : Intents \cup {NoIntent}, mandate : Mandates \cup {NoMandate},
     tx : Txs \cup {NoTx}, result : Results, why : Reasons \cup {NoReason}]
Targets == [intent : Intents, status : IntentStatus]
ReaderState ==
    [pc : {"scan", "target", "revert", "confirm", "commit"}, queue : SUBSET Targets,
     intent : Intents \cup {NoIntent}, depth : 0..MaxDepth]

PipelineTypeOK ==
    /\ proc \in [Procs -> LocalState]
    /\ reader \in ReaderState
    /\ chain \in [Txs -> {"none", "pending", "success", "reverted"}]

-----------------------------------------------------------------------------
(* The invariant *)

Between == {"idle", "recover", "queue"}
MandatePcs == {"reserve", "claim", "fence", "sign", "mark_submitting", "x_reserve"}
RecoveryPcs == {"r_submit", "r_record"}
TxPcs == {"record", "submit"} \cup RecoveryPcs

\* What a process that has reached its pc knows of the deal in its hand: the
\* transaction it holds carries that deal's authorization; it is the recorded
\* one once the submission is recorded, and a successful one in recovery.
Knows(r, rows, blocks) ==
    /\ r.pc \notin Between => r.intent \in Intents
    /\ r.pc \in MandatePcs => r.mandate \in Mandates
    /\ r.pc = "x_release" => r.why \in Reasons
    /\ r.pc \in TxPcs => r.tx \in Txs /\ TxIntent[r.tx] = r.intent
    /\ r.pc = "submit" => rows[r.intent].tx = r.tx
    /\ r.pc \in RecoveryPcs => blocks[r.tx] = "success"

InHand == \A p \in Procs : Knows(proc[p], submission, chain)

\* The Arena's recovery worker has targets with a transaction, and confirms
\* only what it has read as successful.
ReaderKnows ==
    /\ \A target \in reader.queue : submission[target.intent].tx \in Txs
    /\ reader.pc \in {"revert", "confirm", "commit"} => reader.intent \in Intents
    /\ reader.pc \in {"revert", "confirm"} => submission[reader.intent].tx \in Txs
    /\ reader.pc = "revert" => chain[submission[reader.intent].tx] = "reverted"
    /\ reader.pc = "confirm" => /\ chain[submission[reader.intent].tx] = "success"
                                /\ reader.depth \in 1..MaxDepth

\* The token contract honours an authorization once.
PaidOnce ==
    \A t, u \in Txs :
        chain[t] = "success" /\ chain[u] = "success" /\ TxIntent[t] = TxIntent[u] => t = u

\* The transaction of a reservation is the recorded one, or a successful one
\* that recovery found; only a paid deal is confirmed or consumed, and only
\* one whose transaction reverted is reverted.
DealBooks(i) ==
    /\ submission[i].tx # NoTx => TxIntent[submission[i].tx] = i
    /\ intent[i] \in Confirmed => chain[submission[i].tx] = "success"
    /\ intent[i] = "reverted" => chain[submission[i].tx] = "reverted"
    /\ reservation[i].tx # NoTx =>
          \/ reservation[i].tx = submission[i].tx
          \/ chain[reservation[i].tx] = "success" /\ TxIntent[reservation[i].tx] = i
    /\ reservation[i].status = "consumed" =>
          chain[reservation[i].tx] = "success" /\ reservation[i].tx = submission[i].tx

PipelineInv ==
    /\ PipelineTypeOK /\ LedgerInv /\ ArenaInv
    /\ InHand /\ ReaderKnows /\ PaidOnce
    /\ \A i \in Intents : DealBooks(i)

-----------------------------------------------------------------------------
(* What a step does to each part *)

ArenaPart == ArenaNext \/ UNCHANGED arenaVars
LedgerPart == (LedgerCall \/ UNCHANGED ledgerVars) /\ UNCHANGED clock
ChainPart ==
    /\ chain' \in [Txs -> {"none", "pending", "success", "reverted"}]
    /\ \A t \in Txs : chain[t] = "success" => chain'[t] = "success"
    /\ \A t \in Txs : chain[t] = "reverted" => chain'[t] = "reverted"
    /\ PaidOnce'

\* A recorded submission stays as it is.
RowsKept == \A i \in Intents : submission[i].tx # NoTx => submission'[i] = submission[i]

\* One process moves, and knows what its new pc asks for; or none does.
ProcMoves(p) ==
    \E r \in LocalState : /\ proc' = [proc EXCEPT ![p] = r]
                          /\ Knows(r, submission', chain')
ProcPart == proc' = proc \/ \E p \in Procs : ProcMoves(p)
ReaderPart == reader' = reader \/ (reader' \in ReaderState /\ ReaderKnows')

\* A transaction is recorded for the deal it pays, and confirmed if it has.
ArenaHonest ==
    \A i \in Intents :
        /\ submission'[i].tx \in {submission[i].tx, NoTx} \/ TxIntent[submission'[i].tx] = i
        /\ intent'[i] \in Confirmed =>
              intent[i] \in Confirmed \/ chain[submission'[i].tx] = "success"
        /\ intent'[i] = "reverted" =>
              intent[i] = "reverted" \/ chain[submission'[i].tx] = "reverted"

\* A reservation is submitted with the recorded transaction or a successful
\* one, and consumed only for a confirmed deal.
LedgerHonest ==
    \A i \in Intents :
        /\ \/ reservation'[i].tx \in {reservation[i].tx, NoTx}
           \/ reservation'[i].tx = submission[i].tx
           \/ chain[reservation'[i].tx] = "success" /\ TxIntent[reservation'[i].tx] = i
        /\ reservation'[i].status = "consumed" =>
              /\ reservation'[i].tx = reservation[i].tx
              /\ \/ reservation[i].status = "consumed"
                 \/ intent[i] \in Confirmed /\ reservation[i].tx # NoTx

\* A step whose parts are all in order.
StepParts ==
    /\ ArenaPart /\ LedgerPart /\ ChainPart /\ ProcPart /\ ReaderPart
    /\ ArenaHonest /\ LedgerHonest
=============================================================================
