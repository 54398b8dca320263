--------------------- MODULE SettlementPipeline_proofs ---------------------
(***************************************************************************)
(* The composed pipeline, for every number of deals, workers, callers and  *)
(* transactions and for every fault: what each book promises on its own    *)
(* still holds when all of them are driven together, and the three books   *)
(* agree with the chain.                                                   *)
(***************************************************************************)
EXTENDS SettlementInvariants, TLAPS

\* The local state of a process after each kind of update.
LEMMA Rows ==
    ASSUME NEW r \in LocalState
    PROVE  /\ \A pc \in Pcs :
                 /\ WithPc(r, pc) \in LocalState /\ WithPc(r, pc).pc = pc
                 /\ WithPc(r, pc).intent = r.intent /\ WithPc(r, pc).mandate = r.mandate
                 /\ WithPc(r, pc).tx = r.tx /\ WithPc(r, pc).why = r.why
           /\ \A t \in Txs \cup {NoTx} :
                 /\ WithTx(r, t) \in LocalState /\ WithTx(r, t).tx = t
                 /\ WithTx(r, t).intent = r.intent /\ WithTx(r, t).pc = r.pc
           /\ \A x \in Results :
                 /\ WithResult(r, x) \in LocalState
                 /\ WithResult(r, x).intent = r.intent /\ WithResult(r, x).why = r.why
           /\ \A why \in Reasons \cup {NoReason} :
                 /\ WithWhy(r, why) \in LocalState /\ WithWhy(r, why).why = why
                 /\ WithWhy(r, why).intent = r.intent
<1>1. \A pc \in Pcs :
         /\ WithPc(r, pc) \in LocalState /\ WithPc(r, pc).pc = pc
         /\ WithPc(r, pc).intent = r.intent /\ WithPc(r, pc).mandate = r.mandate
         /\ WithPc(r, pc).tx = r.tx /\ WithPc(r, pc).why = r.why
  BY Zenon DEF WithPc, LocalState
<1>2. \A t \in Txs \cup {NoTx} :
         /\ WithTx(r, t) \in LocalState /\ WithTx(r, t).tx = t
         /\ WithTx(r, t).intent = r.intent /\ WithTx(r, t).pc = r.pc
  BY Zenon DEF WithTx, LocalState
<1>3. \A x \in Results :
         /\ WithResult(r, x) \in LocalState
         /\ WithResult(r, x).intent = r.intent /\ WithResult(r, x).why = r.why
  BY Zenon DEF WithResult, LocalState
<1>4. \A why \in Reasons \cup {NoReason} :
         /\ WithWhy(r, why) \in LocalState /\ WithWhy(r, why).why = why
         /\ WithWhy(r, why).intent = r.intent
  BY Zenon DEF WithWhy, LocalState
<1> QED
  BY <1>1, <1>2, <1>3, <1>4, Zenon

LEMMA LocalRow ==
    ASSUME NEW pc \in Pcs, NEW todo \in SUBSET Intents, NEW queue \in SUBSET Intents,
           NEW i \in Intents \cup {NoIntent}, NEW m \in Mandates \cup {NoMandate}
    PROVE  /\ Local(pc, todo, queue, i, m) \in LocalState
           /\ Local(pc, todo, queue, i, m).pc = pc
           /\ Local(pc, todo, queue, i, m).intent = i
           /\ Local(pc, todo, queue, i, m).mandate = m
BY Zenon DEF Local, LocalState, Results

\* The fields of a local state have their types.
LEMMA LocalTypes ==
    ASSUME PipelineTypeOK, NEW p \in Procs
    PROVE  /\ proc[p] \in LocalState
           /\ proc[p].pc \in Pcs
           /\ proc[p].todo \in SUBSET Intents /\ proc[p].queue \in SUBSET Intents
           /\ proc[p].intent \in Intents \cup {NoIntent}
           /\ proc[p].mandate \in Mandates \cup {NoMandate}
           /\ proc[p].tx \in Txs \cup {NoTx}
           /\ proc[p].result \in Results
BY Zenon DEF PipelineTypeOK, LocalState

-----------------------------------------------------------------------------
(* The parts together *)

\* What a process knows stays true while others move.
LEMMA StillKnows ==
    ASSUME RowsKept, ChainPart, TermsAssumption,
           NEW r \in LocalState, Knows(r, submission, chain)
    PROVE  Knows(r, submission', chain')
<1>1. CASE r.pc = "submit"
  <2>1. r.intent \in Intents /\ r.tx \in Txs /\ submission[r.intent].tx = r.tx
    BY <1>1, Zenon DEF Knows, Between, TxPcs
  <2>2. submission'[r.intent] = submission[r.intent]
    BY <2>1, TermsAssumption, Zenon DEF RowsKept
  <2> QED
    BY <1>1, <2>1, <2>2, Zenon DEF Knows, RecoveryPcs
<1>2. CASE r.pc # "submit"
  <2>1. r.pc \in RecoveryPcs => chain'[r.tx] = "success"
    BY Zenon DEF Knows, TxPcs, ChainPart
  <2> QED
    BY <1>2, <2>1, Zenon DEF Knows
<1> QED
  BY <1>1, <1>2, Zenon

LEMMA ProcKept ==
    ASSUME PipelineInv, RowsKept, ChainPart, ProcPart
    PROVE  proc' \in [Procs -> LocalState] /\ InHand'
<1>1. \A p \in Procs : Knows(proc[p], submission', chain')
  BY StillKnows, TermsAssumption, LocalTypes, Zenon DEF PipelineInv, InHand
<1>2. CASE proc' = proc
  BY <1>1, <1>2, Zenon DEF InHand, PipelineInv, PipelineTypeOK
<1>3. ASSUME NEW p \in Procs, ProcMoves(p) PROVE proc' \in [Procs -> LocalState] /\ InHand'
  <2>1. PICK r \in LocalState : proc' = [proc EXCEPT ![p] = r] /\ Knows(r, submission', chain')
    BY <1>3, Zenon DEF ProcMoves
  <2>2. /\ proc' \in [Procs -> LocalState] /\ proc'[p] = r
        /\ \A q \in Procs \ {p} : proc'[q] = proc[q]
    BY <2>1, Zenon DEF PipelineInv, PipelineTypeOK
  <2> QED
    BY <1>1, <2>1, <2>2, Zenon DEF InHand
<1> QED
  BY <1>2, <1>3, Zenon DEF ProcPart

LEMMA ReaderKept ==
    ASSUME PipelineInv, RowsKept, ChainPart, ReaderPart
    PROVE  reader' \in ReaderState /\ ReaderKnows'
<1>1. CASE reader' = reader
  <2>1. \A target \in reader.queue : target.intent \in Intents
    BY Zenon DEF PipelineInv, PipelineTypeOK, ReaderState, Targets
  <2>2. \A i \in Intents : submission[i].tx \in Txs => submission'[i] = submission[i]
    BY TermsAssumption, Zenon DEF RowsKept
  <2> QED
    BY <1>1, <2>1, <2>2 DEF PipelineInv, PipelineTypeOK, ReaderKnows, ChainPart
<1> QED
  BY <1>1, Zenon DEF ReaderPart

\* The books keep agreeing with the chain.
LEMMA BooksKept ==
    ASSUME PipelineInv, ArenaInv', RowsKept, ChainPart, ArenaHonest, LedgerHonest,
           LedgerTypeOK', NEW i \in Intents
    PROVE  DealBooks(i)'
<1>1. DealBooks(i)
  BY Zenon DEF PipelineInv
<1>2. /\ submission[i].tx \in Txs \cup {NoTx} /\ submission'[i].tx \in Txs \cup {NoTx}
      /\ reservation[i].tx \in Txs \cup {NoTx} /\ reservation'[i].tx \in Txs \cup {NoTx}
  BY DEF PipelineInv, ArenaInv, ArenaTypeOK, LedgerInv, LedgerTypeOK, ReservationRow
<1>3. /\ intent[i] \in Confirmed => submission[i].tx # NoTx
      /\ intent'[i] \in Confirmed => submission'[i].tx # NoTx
      /\ intent[i] = "reverted" => submission[i].tx # NoTx
      /\ intent'[i] = "reverted" => submission'[i].tx # NoTx
  BY Zenon DEF PipelineInv, ArenaInv, EvidenceComplete, Confirmed, Submitted
<1>4. /\ submission[i].tx # NoTx => submission'[i].tx = submission[i].tx
      /\ \A t \in Txs : chain[t] = "success" => chain'[t] = "success"
      /\ \A t \in Txs : chain[t] = "reverted" => chain'[t] = "reverted"
  BY Zenon DEF RowsKept, ChainPart
<1>5. submission'[i].tx # NoTx => TxIntent[submission'[i].tx] = i
  BY <1>1, <1>4, Zenon DEF DealBooks, ArenaHonest
<1>6. intent'[i] \in Confirmed => chain'[submission'[i].tx] = "success"
  BY <1>1, <1>2, <1>3, <1>4 DEF DealBooks, ArenaHonest
<1>9. intent'[i] = "reverted" => chain'[submission'[i].tx] = "reverted"
  BY <1>1, <1>2, <1>3, <1>4 DEF DealBooks, ArenaHonest
<1>7. reservation'[i].tx # NoTx =>
         \/ reservation'[i].tx = submission'[i].tx
         \/ chain'[reservation'[i].tx] = "success" /\ TxIntent[reservation'[i].tx] = i
  BY <1>1, <1>2, <1>4 DEF DealBooks, LedgerHonest
<1>8. ASSUME reservation'[i].status = "consumed"
      PROVE  chain'[reservation'[i].tx] = "success" /\ reservation'[i].tx = submission'[i].tx
  <2>1. CASE reservation[i].status = "consumed"
    <3>1. /\ reservation'[i].tx = reservation[i].tx /\ chain[reservation[i].tx] = "success"
          /\ reservation[i].tx = submission[i].tx /\ reservation[i].tx # NoTx
      BY <1>1, <1>8, <2>1, Zenon DEF DealBooks, LedgerHonest, PipelineInv, LedgerInv,
           ReservationsGrounded
    <3> QED
      BY <1>2, <1>4, <3>1, Zenon
  <2>2. CASE intent[i] \in Confirmed /\ reservation[i].tx # NoTx
    <3>1. reservation'[i].tx = reservation[i].tx
      BY <1>8, Zenon DEF LedgerHonest
    <3>2. /\ submission[i].tx \in Txs /\ chain[submission[i].tx] = "success"
          /\ TxIntent[submission[i].tx] = i
      BY <1>1, <1>2, <1>3, <2>2, Zenon DEF DealBooks
    <3>3. reservation[i].tx = submission[i].tx
      BY <1>1, <1>2, <2>2, <3>2 DEF DealBooks, PipelineInv, PaidOnce
    <3> QED
      BY <1>4, <3>1, <3>2, <3>3, TermsAssumption, Zenon
  <2> QED
    BY <1>8, <2>1, <2>2, Zenon DEF LedgerHonest
<1> QED
  BY <1>5, <1>6, <1>7, <1>8, <1>9, Zenon DEF DealBooks

-----------------------------------------------------------------------------
(* Parts that stay as they are *)

LEMMA QuietArena == ASSUME UNCHANGED arenaVars PROVE ArenaPart /\ ArenaHonest /\ RowsKept
<1>1. submission' = submission /\ intent' = intent
  BY Zenon DEF arenaVars, intentVars
<1> QED
  BY <1>1, Zenon DEF ArenaPart, ArenaHonest, RowsKept

LEMMA QuietLedger ==
    ASSUME UNCHANGED ledgerVars, UNCHANGED clock PROVE LedgerPart /\ LedgerHonest
<1>1. reservation' = reservation
  BY Zenon DEF ledgerVars
<1> QED
  BY <1>1, Zenon DEF LedgerPart, LedgerHonest

LEMMA QuietChain == ASSUME PipelineInv, UNCHANGED chain PROVE ChainPart
BY Zenon DEF PipelineInv, PipelineTypeOK, ChainPart, PaidOnce

\* A step that changes local variables, leases or fences only.
LEMMA LocalKind ==
    ASSUME PipelineInv, UNCHANGED ledgerVars, UNCHANGED clock, UNCHANGED arenaVars,
           UNCHANGED chain, ReaderPart, ProcPart
    PROVE  StepParts
BY QuietArena, QuietLedger, QuietChain, Zenon DEF StepParts

\* A step that changes the ledger.
LEMMA LedgerKind ==
    ASSUME PipelineInv, LedgerCall \/ UNCHANGED ledgerVars, LedgerHonest, UNCHANGED clock,
           UNCHANGED arenaVars, UNCHANGED chain, UNCHANGED reader, ProcPart
    PROVE  StepParts
BY QuietArena, QuietChain, Zenon DEF LedgerPart, ReaderPart, StepParts

\* A step that changes the Arena's rows.
LEMMA ArenaKind ==
    ASSUME PipelineInv, UNCHANGED ledgerVars, UNCHANGED clock, UNCHANGED chain,
           ArenaPart, ArenaHonest, ProcPart, ReaderPart
    PROVE  StepParts
BY QuietLedger, QuietChain, Zenon DEF StepParts

\* A step of the facilitator or the chain.
LEMMA ChainKind ==
    ASSUME PipelineInv, UNCHANGED ledgerVars, UNCHANGED clock, UNCHANGED arenaVars,
           UNCHANGED reader, ChainPart, ProcPart
    PROVE  StepParts
BY QuietArena, QuietLedger, Zenon DEF ReaderPart, StepParts

-----------------------------------------------------------------------------
(* How a process moves *)

\* What is known at a is enough at b.
Follows(a, b) ==
    /\ b \in Pcs
    /\ b \in Between \/ a \notin Between
    /\ b \in MandatePcs => a \in MandatePcs
    /\ b \in TxPcs => a \in TxPcs
    /\ b \in RecoveryPcs => a \in RecoveryPcs
    /\ b \notin {"submit", "x_release"}

LEMMA GotoMoves ==
    ASSUME PipelineInv, RowsKept, ChainPart, NEW p \in Procs, NEW pc,
           Follows(proc[p].pc, pc), Goto(p, pc)
    PROVE  ProcPart
<1>1. proc[p] \in LocalState /\ Knows(proc[p], submission', chain')
  BY StillKnows, TermsAssumption, LocalTypes, Zenon DEF PipelineInv, InHand
<1> DEFINE r == proc[p]
           q == WithPc(r, pc)
<1>2. pc \in Pcs
  BY Zenon DEF Follows
<1>3. /\ q \in LocalState /\ q.pc = pc /\ q.intent = r.intent /\ q.mandate = r.mandate
      /\ q.tx = r.tx
  BY <1>1, <1>2, Rows
<1>4. proc' = [proc EXCEPT ![p] = q]
  BY Zenon DEF Goto, Become
<1> HIDE DEF q
<1>5. Knows(q, submission', chain')
  BY <1>1, <1>3, Zenon DEF Knows, Follows
<1> QED
  BY <1>3, <1>4, <1>5, Zenon DEF ProcPart, ProcMoves

LEMMA KnownMoves ==
    ASSUME NEW p \in Procs, NEW r \in LocalState, Become(p, r), Knows(r, submission', chain')
    PROVE  ProcPart
BY Zenon DEF ProcPart, ProcMoves, Become

\* Between two deals nothing has to be known.
LEMMA BetweenMoves ==
    ASSUME NEW p \in Procs, NEW r \in LocalState, r.pc \in Between, Become(p, r)
    PROVE  ProcPart
<1>1. Knows(r, submission', chain')
  BY Zenon DEF Knows, Between, MandatePcs, TxPcs, RecoveryPcs
<1> QED
  BY <1>1, Zenon DEF ProcPart, ProcMoves, Become

LEMMA EndMoves == ASSUME NEW p \in Procs, EndCycle(p) PROVE ProcPart
<1>1. Idle \in LocalState /\ Idle.pc = "idle"
  BY LocalRow DEF Idle, Pcs
<1> QED
  BY <1>1, BetweenMoves, Zenon DEF EndCycle, Between

LEMMA QueueMoves ==
    ASSUME NEW p \in Procs, NEW S \in SUBSET Intents, Queue(p, S) \/ Recover(p, S)
    PROVE  ProcPart
<1>1. /\ Local("queue", {}, S, NoIntent, NoMandate) \in LocalState
      /\ Local("queue", {}, S, NoIntent, NoMandate).pc = "queue"
      /\ Local("recover", S, {}, NoIntent, NoMandate) \in LocalState
      /\ Local("recover", S, {}, NoIntent, NoMandate).pc = "recover"
  BY LocalRow DEF Pcs
<1> QED
  BY <1>1, BetweenMoves, Zenon DEF Queue, Recover, Between

LEMMA NextMoves == ASSUME PipelineInv, NEW p \in Procs, NextTarget(p) PROVE ProcPart
BY QueueMoves, LocalTypes, Zenon DEF NextTarget, PipelineInv

LEMMA ReturnMoves ==
    ASSUME PipelineInv, NEW p \in Procs, NEW result \in Results, proc[p].pc \notin Between,
           Return(p, result)
    PROVE  ProcPart
<1>1. CASE p \in Callers
  BY <1>1, EndMoves, Zenon DEF Return, EndCycle, Become
<1>2. CASE p \notin Callers
  <2> DEFINE r == WithPc(WithResult(proc[p], result), AfterExecute(result))
  <2>1. proc[p] \in LocalState /\ proc[p].intent \in Intents
    BY LocalTypes, Zenon DEF PipelineInv, InHand, Knows
  <2>2. AfterExecute(result) \in {"fail", "mark"} /\ AfterExecute(result) \in Pcs
    BY Zenon DEF AfterExecute, Pcs
  <2>3. WithResult(proc[p], result) \in LocalState /\ WithResult(proc[p], result).intent \in Intents
    BY <2>1, Rows
  <2>4. r \in LocalState /\ r.pc \in {"fail", "mark"} /\ r.intent \in Intents
    BY <2>2, <2>3, Rows
  <2> HIDE DEF r
  <2>5. Knows(r, submission', chain')
    BY <2>4, Zenon DEF Knows, MandatePcs, TxPcs, RecoveryPcs
  <2>6. proc' = [proc EXCEPT ![p] = r]
    BY <1>2, Zenon DEF Return, Become, r
  <2> QED
    BY <2>4, <2>5, <2>6, Zenon DEF ProcPart, ProcMoves
<1> QED
  BY <1>1, <1>2, Zenon

LEMMA ReleaseMoves ==
    ASSUME PipelineInv, NEW p \in Procs, NEW result \in Results, NEW why \in Reasons,
           proc[p].pc \notin Between, ReleaseThen(p, result, why)
    PROVE  ProcPart
<1> DEFINE r == WithPc(WithResult(WithWhy(proc[p], why), result), "x_release")
<1>1. proc[p] \in LocalState /\ proc[p].intent \in Intents
  BY LocalTypes, Zenon DEF PipelineInv, InHand, Knows
<1>2. /\ WithWhy(proc[p], why) \in LocalState /\ WithWhy(proc[p], why).intent \in Intents
      /\ WithWhy(proc[p], why).why = why
  BY <1>1, Rows
<1>3. /\ WithResult(WithWhy(proc[p], why), result) \in LocalState
      /\ WithResult(WithWhy(proc[p], why), result).intent \in Intents
      /\ WithResult(WithWhy(proc[p], why), result).why = why
  BY <1>2, Rows
<1>4. r \in LocalState /\ r.pc = "x_release" /\ r.intent \in Intents /\ r.why = why
  BY <1>3, Rows DEF Pcs
<1>5. proc' = [proc EXCEPT ![p] = r]
  BY Zenon DEF ReleaseThen, Become
<1> HIDE DEF r
<1>6. Knows(r, submission', chain')
  BY <1>4, Zenon DEF Knows, MandatePcs, TxPcs, RecoveryPcs
<1> QED
  BY <1>4, <1>5, <1>6, Zenon DEF ProcPart, ProcMoves

-----------------------------------------------------------------------------
(* What the calls do to the ledger *)

\* What each update writes into the columns of a reservation.
LEMMA WrittenRows ==
    /\ \A m \in Mandates : ReservedRow(m).status = "reserved" /\ ReservedRow(m).tx = NoTx
    /\ \A r \in ReservationRow, t \in Txs \cup {NoTx} :
          /\ SubmittedRow(r, t).status = "submitted" /\ SubmittedRow(r, t).tx = t
          /\ ConsumedRow(r, t).tx = t
    /\ \A r \in ReservationRow, why \in Reasons :
          ReleasedRow(r, why).status = "released" /\ ReleasedRow(r, why).tx = NoTx
BY Zenon DEF ReservationRow, NoReservation, ReservedRow, SubmittedRow, ConsumedRow, ReleasedRow

LEMMA ReserveHonest ==
    ASSUME LedgerTypeOK, NEW m \in Mandates, NEW i \in Intents, ReserveNow(m, i)
    PROVE  LedgerCall /\ LedgerHonest
<1>1. LedgerCall
  BY Zenon DEF ReserveNow, LedgerCall
<1>2. reservation' = [reservation EXCEPT ![i] = ReservedRow(m)]
  BY Zenon DEF ReserveNow, reserve_mandate
<1>3. \A j \in Intents : \/ reservation'[j] = reservation[j]
                         \/ reservation'[j].tx = NoTx /\ reservation'[j].status = "reserved"
  BY <1>2, WrittenRows, Zenon DEF LedgerTypeOK
<1> QED
  BY <1>1, <1>3, Zenon DEF LedgerHonest

LEMMA SubmitHonest ==
    ASSUME LedgerTypeOK, NEW i \in Intents, NEW t \in Txs, submit_reservation(i, t),
           \/ submission[i].tx = t
           \/ chain[t] = "success" /\ TxIntent[t] = i
    PROVE  LedgerCall /\ LedgerHonest
<1>1. LedgerCall
  BY Zenon DEF LedgerCall
<1>2. \/ reservation' = reservation
      \/ reservation' = [reservation EXCEPT ![i] = SubmittedRow(reservation[i], t)]
  BY Zenon DEF submit_reservation
<1>3. \A j \in Intents \ {i} : reservation'[j] = reservation[j]
  BY <1>2, Zenon DEF LedgerTypeOK
<1>4. \/ reservation'[i] = reservation[i]
      \/ reservation'[i].tx = t /\ reservation'[i].status = "submitted"
  BY <1>2, WrittenRows DEF LedgerTypeOK
<1> QED
  BY <1>1, <1>3, <1>4, Zenon DEF LedgerHonest

LEMMA ReleaseHonest ==
    ASSUME LedgerTypeOK, NEW i \in Intents, NEW why \in Reasons, release_reservation(i, why)
    PROVE  LedgerCall /\ LedgerHonest
<1>1. LedgerCall
  BY Zenon DEF LedgerCall
<1>2. \/ reservation' = reservation
      \/ reservation' = [reservation EXCEPT ![i] = ReleasedRow(reservation[i], why)]
  BY Zenon DEF release_reservation, ledgerVars
<1>3. \A j \in Intents \ {i} : reservation'[j] = reservation[j]
  BY <1>2, Zenon DEF LedgerTypeOK
<1>4. \/ reservation'[i] = reservation[i]
      \/ reservation'[i].tx = NoTx /\ reservation'[i].status = "released"
  BY <1>2, WrittenRows DEF LedgerTypeOK
<1> QED
  BY <1>1, <1>3, <1>4, Zenon DEF LedgerHonest

LEMMA ReconcileHonest ==
    ASSUME LedgerTypeOK, ReservationsGrounded,
           reconcile_finalized_reservations({i \in Intents : intent[i] \in Confirmed},
                                            {i \in Intents : intent[i] = "reverted"})
    PROVE  LedgerCall /\ LedgerHonest
<1> DEFINE paid == {i \in Intents : intent[i] \in Confirmed}
           reverted == {i \in Intents : intent[i] = "reverted"}
<1>1. paid \in SUBSET Intents /\ reverted \in SUBSET (Intents \ paid)
  BY Zenon DEF Confirmed
<1>2. LedgerCall
  BY <1>1, Zenon DEF LedgerCall
<1>3. ASSUME NEW j \in Intents
      PROVE  \/ reservation'[j] = reservation[j]
             \/ /\ reservation[j].status = "submitted" /\ intent[j] \in Confirmed
                /\ reservation'[j] = ConsumedRow(reservation[j], reservation[j].tx)
             \/ reservation'[j] = ReleasedRow(reservation[j], "chain_transaction_reverted")
  BY DEF reconcile_finalized_reservations
<1>4. ASSUME NEW j \in Intents
      PROVE  \/ reservation'[j] = reservation[j]
             \/ /\ intent[j] \in Confirmed /\ reservation[j].tx # NoTx
                /\ reservation'[j].tx = reservation[j].tx
             \/ reservation'[j].tx = NoTx /\ reservation'[j].status = "released"
  <2>1. reservation[j] \in ReservationRow /\ reservation[j].tx \in Txs \cup {NoTx}
    BY Zenon DEF LedgerTypeOK, ReservationRow
  <2>2. reservation[j].status = "submitted" => reservation[j].tx # NoTx
    BY Zenon DEF ReservationsGrounded
  <2> QED
    BY <1>3, <2>1, <2>2, WrittenRows, LedgerAssumption
<1> QED
  BY <1>2, <1>4, Zenon DEF LedgerHonest

-----------------------------------------------------------------------------
(* What the calls do to the Arena's rows *)

\* Nothing is recorded, and nothing is confirmed or reverted.
LEMMA PlainHonest ==
    ASSUME submission' = submission,
           \A j \in Intents : intent'[j] \in Confirmed => intent[j] \in Confirmed,
           \A j \in Intents : intent'[j] = "reverted" => intent[j] = "reverted"
    PROVE  ArenaHonest
BY Zenon DEF ArenaHonest

LEMMA SubmissionHonest ==
    ASSUME ArenaTypeOK, NEW i \in Intents, NEW t \in Txs, TxIntent[t] = i,
           record_settlement_submission(i, t, "sandbox_guest")
    PROVE  ArenaPart /\ ArenaHonest /\ submission'[i].tx = t
<1>1. ArenaPart
  BY Zenon DEF ArenaPart, ArenaNext, SubmissionSources
<1>2. /\ submission'[i].tx = t
      /\ \A j \in Intents \ {i} : submission'[j] = submission[j]
  BY Zenon DEF record_settlement_submission, ArenaTypeOK
<1>3. \A j \in Intents : /\ intent'[j] \in Confirmed => intent[j] \in Confirmed
                         /\ intent'[j] = "reverted" => intent[j] = "reverted"
  BY Zenon DEF record_settlement_submission, ArenaTypeOK, Confirmed
<1> QED
  BY <1>1, <1>2, <1>3, Zenon DEF ArenaHonest

LEMMA FailureHonest ==
    ASSUME ArenaTypeOK, NEW i \in Intents, record_automatic_failure(i)
    PROVE  ArenaPart /\ ArenaHonest
<1>1. ArenaPart
  BY Zenon DEF ArenaPart, ArenaNext
<1>2. \A j \in Intents : /\ intent'[j] \in Confirmed => intent[j] \in Confirmed
                         /\ intent'[j] = "reverted" => intent[j] = "reverted"
  BY Zenon DEF record_automatic_failure, ArenaTypeOK, Confirmed
<1>3. submission' = submission
  BY Zenon DEF record_automatic_failure
<1> QED
  BY <1>1, <1>2, <1>3, PlainHonest, Zenon

LEMMA ApprovalHonest ==
    ASSUME NEW i \in Intents, record_settlement_approval(i, "payment_mandate")
    PROVE  ArenaPart /\ ArenaHonest
<1>1. ArenaPart
  BY Zenon DEF ArenaPart, ArenaNext, ApprovalSources
<1>2. submission' = submission /\ intent' = intent
  BY Zenon DEF record_settlement_approval
<1> QED
  BY <1>1, <1>2, PlainHonest, Zenon

LEMMA RevertedHonest ==
    ASSUME ArenaTypeOK, NEW i \in Intents, NEW t \in Txs, submission[i].tx = t,
           chain[t] = "reverted", record_chain_reverted(i, t)
    PROVE  ArenaPart /\ ArenaHonest
<1>1. ArenaPart
  BY Zenon DEF ArenaPart, ArenaNext
<1>2. \A j \in Intents \ {i} : intent'[j] = intent[j]
  BY Zenon DEF record_chain_reverted, ArenaTypeOK
<1>3. submission' = submission /\ intent'[i] = "reverted"
  BY Zenon DEF record_chain_reverted, ArenaTypeOK
<1> QED
  BY <1>1, <1>2, <1>3, Zenon DEF ArenaHonest, Confirmed

LEMMA ConfirmationHonest ==
    ASSUME ArenaTypeOK, NEW i \in Intents, NEW t \in Txs, NEW depth \in 1..MaxDepth,
           submission[i].tx = t, chain[t] = "success", record_chain_confirmation(i, t, depth)
    PROVE  ArenaPart /\ ArenaHonest
<1>1. ArenaPart
  BY Zenon DEF ArenaPart, ArenaNext
<1>2. submission' = submission
  BY Zenon DEF record_chain_confirmation
<1>3. \A j \in Intents \ {i} : intent'[j] = intent[j]
  BY Zenon DEF record_chain_confirmation, ArenaTypeOK
<1>4. intent'[i] = "reverted" => intent[i] = "reverted"
  BY Zenon DEF record_chain_confirmation, ArenaTypeOK
<1> QED
  BY <1>1, <1>2, <1>3, <1>4, Zenon DEF ArenaHonest

LEMMA CommitHonest ==
    ASSUME ArenaTypeOK, NEW i \in Intents, commit_confirmed_inventory(i)
    PROVE  ArenaPart /\ ArenaHonest
<1>1. ArenaPart
  BY Zenon DEF ArenaPart, ArenaNext
<1>2. submission' = submission /\ intent[i] \in Confirmed /\ intent'[i] = "inventory_committed"
  BY Zenon DEF commit_confirmed_inventory, Confirmed, ArenaTypeOK
<1>3. \A j \in Intents \ {i} : intent'[j] = intent[j]
  BY Zenon DEF commit_confirmed_inventory, ArenaTypeOK
<1> QED
  BY <1>1, <1>2, <1>3, PlainHonest, Zenon

-----------------------------------------------------------------------------
(* The steps of a process *)

\* What the invariant says of the process that moves.
LEMMA Hand ==
    ASSUME PipelineInv, NEW p \in Procs
    PROVE  /\ LedgerTypeOK /\ ReservationsGrounded /\ ArenaTypeOK
           /\ proc[p] \in LocalState /\ Knows(proc[p], submission, chain)
           /\ proc[p].todo \in SUBSET Intents /\ proc[p].queue \in SUBSET Intents
           /\ proc[p].result \in Results
BY LocalTypes, Zenon DEF PipelineInv, LedgerInv, ArenaInv, InHand

\* Nothing a process may know changes with leases, local variables or the ledger.
LEMMA StillFrame ==
    ASSUME PipelineInv, UNCHANGED arenaVars, UNCHANGED chain PROVE RowsKept /\ ChainPart
BY QuietArena, QuietChain, Zenon

\* The steps that change leases and fences.
LEMMA FenceSteps ==
    ASSUME PipelineInv, NEW w \in Procs,
           \/ RecoverFence(w) \/ ClaimAttempt(w) \/ ClaimFence(w) \/ Defer(w) \/ Sign(w)
           \/ MarkSubmitting(w) \/ MarkResult(w) \/ ReleaseFence(w)
           \/ HandlerFence(w) \/ HandlerMark(w)
    PROVE  StepParts
<1>1. UNCHANGED ledgerVars /\ UNCHANGED clock /\ UNCHANGED arenaVars /\ UNCHANGED chain
      /\ UNCHANGED reader
  BY Zenon DEF RecoverFence, ClaimAttempt, ClaimFence, Defer, Sign, MarkSubmitting, MarkResult,
         ReleaseFence, HandlerFence, HandlerMark, FenceOnly, chainVars
<1>2. RowsKept /\ ChainPart
  BY <1>1, StillFrame, Zenon
<1>3. ASSUME NEW a, NEW b, At(w, a), Goto(w, b), Follows(a, b)
      PROVE  ProcPart
  BY <1>2, <1>3, GotoMoves, Zenon DEF At
<1> SUFFICES ProcPart
  BY <1>1, LocalKind, Zenon DEF ReaderPart
<1> USE DEF Pcs, Between, MandatePcs, TxPcs, RecoveryPcs
<1>4. CASE RecoverFence(w)
  BY <1>4, QueueMoves, Hand, Zenon DEF RecoverFence
<1>5. CASE ClaimAttempt(w)
  <2>1. Follows("claim", "fence")
    BY Zenon DEF Follows
  <2> QED
    BY <1>3, <1>5, <2>1, NextMoves, Zenon DEF ClaimAttempt
<1>6. CASE ClaimFence(w)
  <2>1. Follows("fence", "sign") /\ Follows("fence", "defer")
    BY Zenon DEF Follows
  <2> QED
    BY <1>3, <1>6, <2>1, Zenon DEF ClaimFence
<1>7. CASE Defer(w)
  <2>1. Follows("defer", "h_release")
    BY Zenon DEF Follows
  <2> QED
    BY <1>3, <1>7, <2>1, NextMoves, Zenon DEF Defer
<1>8. CASE Sign(w)
  <2>1. Follows("sign", "mark_submitting") /\ Follows("sign", "h_fence")
    BY Zenon DEF Follows
  <2> QED
    BY <1>3, <1>8, <2>1, Zenon DEF Sign
<1>9. CASE MarkSubmitting(w)
  <2>1. Follows("mark_submitting", "x_reserve") /\ Follows("mark_submitting", "h_fence")
    BY Zenon DEF Follows
  <2> QED
    BY <1>3, <1>9, <2>1, Zenon DEF MarkSubmitting
<1>10. CASE MarkResult(w)
  <2>1. Follows("mark", "unfence")
    BY Zenon DEF Follows
  <2> QED
    BY <1>3, <1>10, <2>1, NextMoves, EndMoves, Zenon DEF MarkResult
<1>11. CASE ReleaseFence(w)
  BY <1>11, NextMoves, EndMoves, Zenon DEF ReleaseFence
<1>12. CASE HandlerFence(w)
  <2>1. Follows("h_fence", "h_release")
    BY Zenon DEF Follows
  <2> QED
    BY <1>3, <1>12, <2>1, EndMoves, Zenon DEF HandlerFence
<1>13. CASE HandlerMark(w)
  <2>1. Follows("h_mark", "h_fail")
    BY Zenon DEF Follows
  <2> QED
    BY <1>3, <1>13, <2>1, EndMoves, Zenon DEF HandlerMark
<1> QED
  BY <1>4, <1>5, <1>6, <1>7, <1>8, <1>9, <1>10, <1>11, <1>12, <1>13, Zenon

\* The answer of find_transaction_for_authorization.
LEMMA FoundPays ==
    ASSUME NEW i \in Intents, NEW found \in _find_transaction_for_authorization_sync(i),
           found \in Txs \ {ReadError}
    PROVE  chain[found] = "success" /\ TxIntent[found] = i
<1> DEFINE matches == {t \in Txs : chain[t] = "success" /\ TxIntent[t] = i}
<1>1. \A t : \A x \in _rpc(t, NoTx) : x \in {t, NoTx, ReadError}
  BY Zenon DEF _rpc
<1>2. found \in matches
  BY <1>1, TermsAssumption DEF _find_transaction_for_authorization_sync
<1> QED
  BY <1>2, Zenon

LEMMA FoundRow ==
    ASSUME NEW i \in Intents, NEW todo \in SUBSET Intents, NEW t \in Txs
    PROVE  /\ WithTx(Local("r_submit", todo, {}, i, NoMandate), t) \in LocalState
           /\ WithTx(Local("r_submit", todo, {}, i, NoMandate), t).pc = "r_submit"
           /\ WithTx(Local("r_submit", todo, {}, i, NoMandate), t).intent = i
           /\ WithTx(Local("r_submit", todo, {}, i, NoMandate), t).tx = t
<1> DEFINE q == Local("r_submit", todo, {}, i, NoMandate)
<1>1. "r_submit" \in Pcs /\ {} \in SUBSET Intents
  BY Zenon DEF Pcs
<1>2. q \in LocalState /\ q.pc = "r_submit" /\ q.intent = i
  BY <1>1, LocalRow
<1>3. WithTx(q, t) \in LocalState /\ WithTx(q, t).pc = q.pc /\ WithTx(q, t).intent = q.intent
      /\ WithTx(q, t).tx = t
  <2> HIDE DEF q
  <2> QED
    BY <1>2, Rows
<1> QED
  BY <1>2, <1>3, Zenon

\* The steps that change local variables only.
LEMMA LocalSteps ==
    ASSUME PipelineInv, NEW w \in Procs,
           \/ StartCycle(w) \/ FindTransaction(w) \/ ScanTargets(w) \/ ReadMandate(w)
           \/ Verify(w) \/ Timeout(w) \/ \E i \in Intents : ExecuteRequest(w, i)
    PROVE  StepParts
<1>1. UNCHANGED ledgerVars /\ UNCHANGED clock /\ UNCHANGED arenaVars /\ UNCHANGED chain
      /\ UNCHANGED reader
  BY Zenon DEF StartCycle, FindTransaction, ScanTargets, ReadMandate, Verify, Timeout, ExecuteRequest,
         LocalOnly, chainVars
<1>2. RowsKept /\ ChainPart
  BY <1>1, StillFrame, Zenon
<1>3. submission' = submission /\ chain' = chain
  BY <1>1, Zenon DEF arenaVars, intentVars
<1> SUFFICES ProcPart
  BY <1>1, LocalKind, Zenon DEF ReaderPart
<1>4. CASE StartCycle(w)
  <2>1. UnknownTargets \in SUBSET Intents
    BY Zenon DEF UnknownTargets, Unresolved
  <2> QED
    BY <1>4, <2>1, QueueMoves, Zenon DEF StartCycle
<1>5. CASE FindTransaction(w)
  <2>1. PICK i \in proc[w].todo : \E found \in _find_transaction_for_authorization_sync(i) :
             \/ EndCycle(w)
             \/ Recover(w, proc[w].todo \ {i})
             \/ /\ found \in Txs \ {ReadError}
                /\ Become(w, WithTx(Local("r_submit", proc[w].todo \ {i}, {}, i, NoMandate), found))
    BY <1>5, Zenon DEF FindTransaction
  <2>2. PICK found \in _find_transaction_for_authorization_sync(i) :
             \/ EndCycle(w)
             \/ Recover(w, proc[w].todo \ {i})
             \/ /\ found \in Txs \ {ReadError}
                /\ Become(w, WithTx(Local("r_submit", proc[w].todo \ {i}, {}, i, NoMandate), found))
    BY <2>1, Zenon
  <2>3. i \in Intents /\ proc[w].todo \ {i} \in SUBSET Intents
    BY Hand, Zenon
  <2>4. CASE /\ found \in Txs \ {ReadError}
             /\ Become(w, WithTx(Local("r_submit", proc[w].todo \ {i}, {}, i, NoMandate), found))
    <3> DEFINE r == WithTx(Local("r_submit", proc[w].todo \ {i}, {}, i, NoMandate), found)
    <3>1. found \in Txs
      BY <2>4, Zenon
    <3>2. r \in LocalState /\ r.pc = "r_submit" /\ r.intent = i /\ r.tx = found
      BY <2>3, <3>1, FoundRow
    <3>3. chain[found] = "success" /\ TxIntent[found] = i
      BY <2>3, <2>4, FoundPays, Zenon
    <3>4. proc' = [proc EXCEPT ![w] = r]
      BY <2>4, Zenon DEF Become
    <3> HIDE DEF r
    <3>5. Knows(r, submission', chain')
      BY <1>3, <2>3, <2>4, <3>2, <3>3, Zenon DEF Knows, MandatePcs, TxPcs, RecoveryPcs
    <3> QED
      BY <3>2, <3>4, <3>5, Zenon DEF ProcPart, ProcMoves
  <2> QED
    BY <2>2, <2>3, <2>4, EndMoves, QueueMoves, Zenon
<1>6. CASE ScanTargets(w)
  <2>1. {i \in Intents : AuthorizationTarget(i)} \in SUBSET Intents
    BY Zenon
  <2> QED
    BY <1>6, <2>1, QueueMoves, Zenon DEF ScanTargets
<1>7. ASSUME NEW i \in Intents, NEW m \in Mandates \cup {NoMandate}, NEW pc \in Pcs,
             NEW rest \in SUBSET Intents, Become(w, Local(pc, {}, rest, i, m)),
             \/ pc \in {"reserve", "x_reserve"} /\ m \in Mandates
             \/ pc = "no_mandate"
      PROVE  ProcPart
  <2> DEFINE r == Local(pc, {}, rest, i, m)
  <2>1. r \in LocalState /\ r.pc = pc /\ r.intent = i /\ r.mandate = m
    BY LocalRow
  <2>2. proc' = [proc EXCEPT ![w] = r]
    BY <1>7, Zenon DEF Become
  <2> HIDE DEF r
  <2>3. Knows(r, submission', chain')
    BY <1>7, <2>1, Zenon DEF Knows, MandatePcs, TxPcs, RecoveryPcs
  <2> QED
    BY <2>1, <2>2, <2>3, Zenon DEF ProcPart, ProcMoves
<1>8. CASE ReadMandate(w)
  <2>1. PICK i \in Oldest(proc[w].queue) :
          \/ \E m \in ActiveMandates(i, clock) :
                Become(w, Local("reserve", {}, proc[w].queue \ {i}, i, m))
          \/ Become(w, Local("no_mandate", {}, proc[w].queue \ {i}, i, NoMandate))
    BY <1>8, Zenon DEF ReadMandate
  <2>2. i \in Intents /\ proc[w].queue \ {i} \in SUBSET Intents
    BY Hand, Zenon DEF Oldest
  <2>3. ActiveMandates(i, clock) \in SUBSET Mandates
    BY Zenon DEF ActiveMandates
  <2>4. "reserve" \in Pcs /\ "no_mandate" \in Pcs /\ NoMandate \in Mandates \cup {NoMandate}
    BY Zenon DEF Pcs
  <2>5. ASSUME NEW m \in ActiveMandates(i, clock),
               Become(w, Local("reserve", {}, proc[w].queue \ {i}, i, m))
        PROVE  ProcPart
    BY <1>7, <2>2, <2>3, <2>4, <2>5, Zenon
  <2>6. ASSUME Become(w, Local("no_mandate", {}, proc[w].queue \ {i}, i, NoMandate))
        PROVE  ProcPart
    BY <1>7, <2>2, <2>4, <2>6, Zenon
  <2> QED
    BY <2>1, <2>5, <2>6, Zenon
<1>9. CASE Verify(w)
  <2>1. /\ proc[w].pc = "verify" /\ proc[w].pc \notin Between /\ Follows("verify", "approve")
    BY <1>9, Zenon DEF Verify, At, Pcs, Between, Follows, MandatePcs, TxPcs, RecoveryPcs
  <2>2. \/ Goto(w, "approve")
        \/ ReleaseThen(w, "failed", "facilitator_verification_rejected")
        \/ ReleaseThen(w, "failed", "facilitator_unreachable")
        \/ ReleaseThen(w, "raise", "payment_pre_submission_failed")
    BY <1>9, Zenon DEF Verify
  <2> QED
    BY <1>2, <2>1, <2>2, GotoMoves, ReleaseMoves, PipelineAssumption, Zenon DEF Results
<1>10. CASE Timeout(w)
  BY <1>10, ReturnMoves, Zenon DEF Timeout, At, Between, Results
<1>11. ASSUME NEW i \in Intents, ExecuteRequest(w, i) PROVE ProcPart
  <2>1. ActiveMandates(i, clock) \in SUBSET Mandates
    BY Zenon DEF ActiveMandates
  <2> QED
    BY <1>7, <1>11, <2>1 DEF ExecuteRequest, Pcs
<1> QED
  BY <1>4, <1>5, <1>6, <1>8, <1>9, <1>10, <1>11, Zenon

\* The steps that change the ledger.
LEMMA LedgerSteps ==
    ASSUME PipelineInv, NEW p \in Procs,
           \/ RecoverSubmit(p) \/ Reconcile(p) \/ ReserveBudget(p) \/ CoordinatorReserve(p)
           \/ CoordinatorRelease(p) \/ SubmitReservation(p) \/ HandlerRelease(p)
    PROVE  StepParts
<1>1. UNCHANGED clock /\ UNCHANGED arenaVars /\ UNCHANGED chain /\ UNCHANGED reader
  BY Zenon DEF RecoverSubmit, Reconcile, ReserveBudget, CoordinatorReserve, CoordinatorRelease,
         SubmitReservation, HandlerRelease, LedgerOnly, chainVars
<1>2. RowsKept /\ ChainPart
  BY <1>1, StillFrame, Zenon
<1>3. LedgerTypeOK /\ ReservationsGrounded /\ Knows(proc[p], submission, chain)
      /\ proc[p].result \in Results
  BY Hand, Zenon
<1>4. UNCHANGED ledgerVars => LedgerHonest
  BY <1>1, QuietLedger, Zenon
<1> DEFINE Kept == (LedgerCall \/ UNCHANGED ledgerVars) /\ LedgerHonest
           i == proc[p].intent
           m == proc[p].mandate
           t == proc[p].tx
<1>5. CASE RecoverSubmit(p)
  <2>1. /\ proc[p].pc = "r_submit"
        /\ \/ submit_reservation(i, t) /\ Goto(p, "r_record")
           \/ EndCycle(p) /\ UNCHANGED ledgerVars
    BY <1>5, Zenon DEF RecoverSubmit, At
  <2>2. i \in Intents /\ t \in Txs /\ TxIntent[t] = i /\ chain[t] = "success"
    BY <1>3, <2>1, Zenon DEF Knows, Between, TxPcs, RecoveryPcs
  <2>3. Follows("r_submit", "r_record")
    BY Zenon DEF Follows, Pcs, Between, MandatePcs, TxPcs, RecoveryPcs
  <2>4. Kept
    BY <1>3, <1>4, <2>1, <2>2, SubmitHonest, Zenon
  <2>5. ProcPart
    BY <1>2, <2>1, <2>3, GotoMoves, EndMoves, Zenon
  <2> QED
    BY <1>1, <2>4, <2>5, LedgerKind, Zenon
<1>6. CASE Reconcile(p)
  <2>1. Kept
    BY <1>3, <1>6, ReconcileHonest, Zenon DEF Reconcile
  <2>2. ProcPart
    BY <1>6, EndMoves, Zenon DEF Reconcile
  <2> QED
    BY <1>1, <2>1, <2>2, LedgerKind, Zenon
<1>7. CASE ReserveBudget(p)
  <2>1. /\ proc[p].pc = "reserve"
        /\ \/ Goto(p, "claim") /\ UNCHANGED ledgerVars
           \/ ReserveNow(m, i) /\ Goto(p, "claim")
           \/ EndCycle(p) /\ UNCHANGED ledgerVars
    BY <1>7, Zenon DEF ReserveBudget, At
  <2>2. i \in Intents /\ m \in Mandates
    BY <1>3, <2>1, Zenon DEF Knows, Between, MandatePcs
  <2>3. Follows("reserve", "claim")
    BY Zenon DEF Follows, Pcs, Between, MandatePcs, TxPcs, RecoveryPcs
  <2>4. Kept
    BY <1>3, <1>4, <2>1, <2>2, ReserveHonest, Zenon
  <2>5. ProcPart
    BY <1>2, <2>1, <2>3, GotoMoves, EndMoves, Zenon
  <2> QED
    BY <1>1, <2>4, <2>5, LedgerKind, Zenon
<1>8. CASE CoordinatorReserve(p)
  <2>1. /\ proc[p].pc = "x_reserve"
        /\ \/ Return(p, "submitted") /\ UNCHANGED ledgerVars
           \/ Return(p, "failed") /\ UNCHANGED ledgerVars
           \/ Goto(p, "verify") /\ UNCHANGED ledgerVars
           \/ ReserveNow(m, i) /\ Goto(p, "verify")
           \/ EndCycle(p) /\ UNCHANGED ledgerVars
    BY <1>8, Zenon DEF CoordinatorReserve, At
  <2>2. i \in Intents /\ m \in Mandates
    BY <1>3, <2>1, Zenon DEF Knows, Between, MandatePcs
  <2>3. Follows("x_reserve", "verify") /\ "x_reserve" \notin Between
    BY Zenon DEF Follows, Pcs, Between, MandatePcs, TxPcs, RecoveryPcs
  <2>4. Kept
    BY <1>3, <1>4, <2>1, <2>2, ReserveHonest, Zenon
  <2>5. ProcPart
    BY <1>2, <2>1, <2>3, GotoMoves, EndMoves, ReturnMoves, Zenon DEF Results
  <2> QED
    BY <1>1, <2>4, <2>5, LedgerKind, Zenon
<1>9. CASE CoordinatorRelease(p)
  <2>1. /\ proc[p].pc = "x_release"
        /\ \/ /\ release_reservation(i, proc[p].why)
              /\ Return(p, "failed") \/ EndCycle(p)
           \/ /\ ReleaseThen(p, "raise", "payment_pre_submission_failed") \/ EndCycle(p)
              /\ UNCHANGED ledgerVars
    BY <1>9, Zenon DEF CoordinatorRelease, At
  <2>2. i \in Intents /\ proc[p].why \in Reasons /\ "x_release" \notin Between
    BY <1>3, <2>1, Zenon DEF Knows, Between
  <2>3. Kept
    BY <1>3, <1>4, <2>1, <2>2, ReleaseHonest, Zenon
  <2>4. ProcPart
    BY <2>1, <2>2, ReleaseMoves, EndMoves, ReturnMoves, PipelineAssumption, Zenon DEF Results
  <2> QED
    BY <1>1, <2>3, <2>4, LedgerKind, Zenon
<1>10. CASE SubmitReservation(p)
  <2>1. /\ proc[p].pc = "submit"
        /\ \/ submit_reservation(i, t) /\ Return(p, "submitted")
           \/ Return(p, "unknown") /\ UNCHANGED ledgerVars
    BY <1>10, Zenon DEF SubmitReservation, At
  <2>2. i \in Intents /\ t \in Txs /\ submission[i].tx = t /\ "submit" \notin Between
    BY <1>3, <2>1, Zenon DEF Knows, Between, TxPcs
  <2>3. Kept
    BY <1>3, <1>4, <2>1, <2>2, SubmitHonest, Zenon
  <2>4. ProcPart
    BY <2>1, <2>2, ReturnMoves, Zenon DEF Results
  <2> QED
    BY <1>1, <2>3, <2>4, LedgerKind, Zenon
<1>11. CASE HandlerRelease(p)
  <2>1. /\ proc[p].pc = "h_release"
        /\ \/ /\ release_reservation(i, "automatic_settlement_pre_submission_failed")
              /\ Goto(p, "h_mark")
           \/ EndCycle(p) /\ UNCHANGED ledgerVars
    BY <1>11, Zenon DEF HandlerRelease, At
  <2>2. i \in Intents
    BY <1>3, <2>1, Zenon DEF Knows, Between
  <2>3. Follows("h_release", "h_mark")
    BY Zenon DEF Follows, Pcs, Between, MandatePcs, TxPcs, RecoveryPcs
  <2>4. Kept
    BY <1>3, <1>4, <2>1, <2>2, ReleaseHonest, PipelineAssumption, Zenon
  <2>5. ProcPart
    BY <1>2, <2>1, <2>3, GotoMoves, EndMoves, Zenon
  <2> QED
    BY <1>1, <2>4, <2>5, LedgerKind, Zenon
<1> QED
  BY <1>5, <1>6, <1>7, <1>8, <1>9, <1>10, <1>11, Zenon

\* The steps of a process that change the Arena's rows.
LEMMA ArenaSteps ==
    ASSUME PipelineInv, ArenaPart => RowsKept, NEW p \in Procs,
           \/ RecoverRecord(p) \/ FailUnmandated(p) \/ Approve(p) \/ RecordSubmission(p)
           \/ FailSettlement(p) \/ HandlerFail(p)
    PROVE  StepParts
<1>1. UNCHANGED ledgerVars /\ UNCHANGED clock /\ UNCHANGED chain /\ UNCHANGED reader
  BY Zenon DEF RecoverRecord, FailUnmandated, Approve, RecordSubmission, FailSettlement,
       HandlerFail, ArenaOnly, chainVars
<1>2. ChainPart /\ ArenaTypeOK /\ Knows(proc[p], submission, chain) /\ proc[p] \in LocalState
  BY <1>1, QuietChain, Hand, Zenon
<1>3. ASSUME ArenaPart, ArenaHonest, ProcPart PROVE StepParts
  BY <1>1, <1>3, ArenaKind, Zenon DEF ReaderPart
<1>5. UNCHANGED arenaVars => ArenaPart /\ ArenaHonest
  BY QuietArena, Zenon
<1> DEFINE i == proc[p].intent
           t == proc[p].tx
<1>6. CASE RecoverRecord(p)
  <2>1. /\ proc[p].pc = "r_record"
        /\ \/ record_settlement_submission(i, t, "sandbox_guest") /\ Goto(p, "r_fence")
           \/ EndCycle(p) /\ UNCHANGED arenaVars
    BY <1>6, Zenon DEF RecoverRecord, At
  <2>2. i \in Intents /\ t \in Txs /\ TxIntent[t] = i
    BY <1>2, <2>1, Zenon DEF Knows, Between, TxPcs, RecoveryPcs
  <2>3. ArenaPart /\ ArenaHonest
    BY <1>2, <1>5, <2>1, <2>2, SubmissionHonest, Zenon
  <2>4. Follows("r_record", "r_fence")
    BY Zenon DEF Follows, Pcs, Between, MandatePcs, TxPcs, RecoveryPcs
  <2>5. ProcPart
    BY <1>2, <2>1, <2>3, <2>4, GotoMoves, EndMoves, Zenon
  <2> QED
    BY <1>3, <2>3, <2>5, Zenon
<1>7. CASE FailUnmandated(p)
  <2>1. /\ proc[p].pc = "no_mandate"
        /\ \/ record_automatic_failure(i) /\ NextTarget(p)
           \/ EndCycle(p) /\ UNCHANGED arenaVars
    BY <1>7, Zenon DEF FailUnmandated, At
  <2>2. i \in Intents
    BY <1>2, <2>1, Zenon DEF Knows, Between
  <2>3. ArenaPart /\ ArenaHonest
    BY <1>2, <1>5, <2>1, <2>2, FailureHonest, Zenon
  <2>4. ProcPart
    BY <2>1, NextMoves, EndMoves, Zenon
  <2> QED
    BY <1>3, <2>3, <2>4, Zenon
<1>8. CASE Approve(p)
  <2>1. /\ proc[p].pc = "approve"
        /\ \/ record_settlement_approval(i, "payment_mandate") /\ Goto(p, "settle")
           \/ ReleaseThen(p, "raise", "payment_pre_submission_failed") /\ UNCHANGED arenaVars
    BY <1>8, Zenon DEF Approve, At
  <2>2. i \in Intents /\ "approve" \notin Between
    BY <1>2, <2>1, Zenon DEF Knows, Between
  <2>3. ArenaPart /\ ArenaHonest
    BY <1>2, <1>5, <2>1, <2>2, ApprovalHonest, Zenon
  <2>4. Follows("approve", "settle")
    BY Zenon DEF Follows, Pcs, Between, MandatePcs, TxPcs, RecoveryPcs
  <2>5. ProcPart
    BY <1>2, <2>1, <2>2, <2>3, <2>4, GotoMoves, ReleaseMoves, PipelineAssumption, Zenon
         DEF Results
  <2> QED
    BY <1>3, <2>3, <2>5, Zenon
<1>9. CASE RecordSubmission(p)
  <2>1. /\ proc[p].pc = "record"
        /\ \/ record_settlement_submission(i, t, "sandbox_guest") /\ Goto(p, "submit")
           \/ Return(p, "unknown") /\ UNCHANGED arenaVars
    BY <1>9, Zenon DEF RecordSubmission, At
  <2>2. i \in Intents /\ t \in Txs /\ TxIntent[t] = i /\ "record" \notin Between
    BY <1>2, <2>1, Zenon DEF Knows, Between, TxPcs
  <2>3. ArenaPart /\ ArenaHonest
    BY <1>2, <1>5, <2>1, <2>2, SubmissionHonest, Zenon
  <2>4. ASSUME record_settlement_submission(i, t, "sandbox_guest"), Goto(p, "submit")
        PROVE  ProcPart
    <3> DEFINE r == WithPc(proc[p], "submit")
    <3>0. "submit" \in Pcs
      BY Zenon DEF Pcs
    <3>1. r \in LocalState /\ r.pc = "submit" /\ r.intent = i /\ r.tx = t
      BY <1>2, <3>0, Rows, Zenon
    <3>2. submission'[i].tx = t
      BY <1>2, <2>2, <2>4, SubmissionHonest, Zenon
    <3>3. proc' = [proc EXCEPT ![p] = r]
      BY <2>4, Zenon DEF Goto, Become
    <3> HIDE DEF r
    <3>4. Knows(r, submission', chain')
      BY <2>2, <3>1, <3>2, Zenon DEF Knows, MandatePcs, RecoveryPcs
    <3> QED
      BY <3>1, <3>3, <3>4, Zenon DEF ProcPart, ProcMoves
  <2>5. ProcPart
    BY <2>1, <2>2, <2>4, ReturnMoves, Zenon DEF Results
  <2> QED
    BY <1>3, <2>3, <2>5, Zenon
<1>10. CASE FailSettlement(p)
  <2>1. /\ proc[p].pc = "fail"
        /\ \/ record_automatic_failure(i) /\ Goto(p, "mark")
           \/ EndCycle(p) /\ UNCHANGED arenaVars
    BY <1>10, Zenon DEF FailSettlement, At
  <2>2. i \in Intents
    BY <1>2, <2>1, Zenon DEF Knows, Between
  <2>3. ArenaPart /\ ArenaHonest
    BY <1>2, <1>5, <2>1, <2>2, FailureHonest, Zenon
  <2>4. Follows("fail", "mark")
    BY Zenon DEF Follows, Pcs, Between, MandatePcs, TxPcs, RecoveryPcs
  <2>5. ProcPart
    BY <1>2, <2>1, <2>3, <2>4, GotoMoves, EndMoves, Zenon
  <2> QED
    BY <1>3, <2>3, <2>5, Zenon
<1>11. CASE HandlerFail(p)
  <2>1. /\ proc[p].pc = "h_fail"
        /\ record_automatic_failure(i) \/ UNCHANGED arenaVars
        /\ EndCycle(p)
    BY <1>11, Zenon DEF HandlerFail, At
  <2>2. i \in Intents
    BY <1>2, <2>1, Zenon DEF Knows, Between
  <2>3. ArenaPart /\ ArenaHonest
    BY <1>2, <1>5, <2>1, <2>2, FailureHonest, Zenon
  <2> QED
    BY <1>3, <2>1, <2>3, EndMoves, Zenon
<1> QED
  BY <1>6, <1>7, <1>8, <1>9, <1>10, <1>11, Zenon

-----------------------------------------------------------------------------
(* The steps of the facilitator, the chain, the reader and the environment *)

\* Sending and refusing leave the chain alone; a broadcast is pending at first.
LEMMA RelaySteps ==
    ASSUME PipelineInv, NEW p \in Procs,
           SendSettle(p) \/ \E i \in Intents : RelayStep(p, i)
    PROVE  StepParts
<1>1. UNCHANGED ledgerVars /\ UNCHANGED clock /\ UNCHANGED arenaVars /\ UNCHANGED reader
  BY Zenon DEF SendSettle, RelayStep, RelayBroadcast, RelayRefuse, RelayDrop, ChainOnly
<1>2. submission' = submission
  BY <1>1, Zenon DEF arenaVars, intentVars
<1>3. RowsKept
  BY <1>1, QuietArena, Zenon
<1>4. ASSUME ChainPart, ProcPart PROVE StepParts
  BY <1>1, <1>4, ChainKind, Zenon
<1>5. UNCHANGED chain => ChainPart
  BY QuietChain, Zenon
<1>6. CASE SendSettle(p)
  <2>1. /\ proc[p].pc = "settle" /\ UNCHANGED chain /\ Goto(p, "wait")
    BY <1>6, Zenon DEF SendSettle, At, Send
  <2>2. Follows("settle", "wait")
    BY Zenon DEF Follows, Pcs, Between, MandatePcs, TxPcs, RecoveryPcs
  <2> QED
    BY <1>3, <1>4, <1>5, <2>1, <2>2, GotoMoves, Zenon
<1>7. ASSUME NEW i \in Intents, NEW t \in Txs, RelayBroadcast(p, i, t) PROVE StepParts
  <2>1. chain[t] = "none" /\ chain' = [chain EXCEPT ![t] = "pending"] /\ TxIntent[t] = i
    BY <1>7, Zenon DEF RelayBroadcast, Broadcast
  <2>2. ChainPart
    BY <2>1, Zenon DEF ChainPart, PipelineInv, PipelineTypeOK, PaidOnce
  <2>3. ASSUME Waiting(p, i), Become(p, WithPc(WithTx(proc[p], t), "record")) PROVE ProcPart
    <3> DEFINE q == WithTx(proc[p], t)
               r == WithPc(q, "record")
    <3>1. proc[p] \in LocalState /\ proc[p].intent = i /\ "record" \in Pcs
      BY <2>3, Hand, Zenon DEF Waiting, Pcs
    <3>2. q \in LocalState /\ q.intent = i /\ q.tx = t
      BY <3>1, Zenon DEF WithTx, LocalState
    <3> HIDE DEF q
    <3>3. r \in LocalState /\ r.pc = "record" /\ r.intent = i /\ r.tx = t
      BY <3>1, <3>2, Rows, Zenon
    <3>4. Become(p, r)
      BY <2>3, Zenon DEF q
    <3> HIDE DEF r
    <3>5. Knows(r, submission', chain')
      BY <2>1, <3>3, Zenon DEF Knows, MandatePcs, TxPcs, RecoveryPcs
    <3> QED
      BY <3>3, <3>4, <3>5, KnownMoves, Zenon
  <2>4. ProcPart
    BY <1>7, <2>3, Zenon DEF RelayBroadcast, ProcPart
  <2> QED
    BY <1>4, <2>2, <2>4, Zenon
<1>8. ASSUME NEW i \in Intents, RelayRefuse(p, i) \/ RelayDrop(p, i) PROVE StepParts
  <2>1. chain' = chain
    <3>1. CASE RelayRefuse(p, i)
      BY <3>1, Zenon DEF RelayRefuse, Refuse
    <3>2. CASE RelayDrop(p, i)
      BY <3>2, Zenon DEF RelayDrop, Drop
    <3> QED
      BY <1>8, <3>1, <3>2, Zenon
  <2>4. \/ proc[p].pc = "wait" /\ ReleaseThen(p, "failed", "facilitator_rejected")
        \/ proc[p].pc = "wait" /\ Return(p, "unknown")
        \/ proc' = proc
    BY <1>8, Zenon DEF RelayRefuse, RelayDrop, Waiting, At
  <2>2. "wait" \notin Between /\ {"failed", "unknown"} \subseteq Results
    BY Zenon DEF Between, Results
  <2>3. ProcPart
    BY <2>2, <2>4, ReleaseMoves, ReturnMoves, PipelineAssumption, Zenon DEF ProcPart
  <2> QED
    BY <1>4, <1>5, <2>1, <2>3, Zenon
<1> QED
  BY <1>6, <1>7, <1>8, Zenon DEF RelayStep

\* A mined transaction succeeds only as the first of its authorization.
LEMMA MineSteps == ASSUME PipelineInv, NEW t \in Txs, MineStep(t) PROVE StepParts
<1>1. UNCHANGED ledgerVars /\ UNCHANGED clock /\ UNCHANGED arenaVars /\ UNCHANGED reader
      /\ UNCHANGED proc
  BY Zenon DEF MineStep
<1>2. PICK outcome \in (IF Paid(TxIntent[t]) THEN {} ELSE {"success"}) \cup
                       (IF Paid(TxIntent[t]) \/ "revert" \in Faults THEN {"reverted"} ELSE {}) :
         chain' = [chain EXCEPT ![t] = outcome]
  BY Zenon DEF MineStep, Mine
<1>5. chain[t] = "pending" /\ (outcome = "reverted" \/ (outcome = "success" /\ ~Paid(TxIntent[t])))
  <2>1. chain[t] = "pending"
    BY Zenon DEF MineStep, Mine
  <2>2. outcome \in {"success", "reverted"}
    BY <1>2, Zenon
  <2>3. outcome = "success" => ~Paid(TxIntent[t])
    BY <1>2, Zenon
  <2> QED
    BY <2>1, <2>2, <2>3, Zenon
<1>3. PaidOnce'
  BY <1>2, <1>5, Zenon DEF PaidOnce, Paid, PipelineInv, PipelineTypeOK
<1>4. ChainPart
  BY <1>2, <1>3, <1>5, Zenon DEF ChainPart, PipelineInv, PipelineTypeOK
<1> QED
  BY <1>1, <1>4, ChainKind, Zenon DEF ProcPart

\* A receipt that the reader takes for a payment is one.
LEMMA ReadSound ==
    ASSUME NEW i \in Intents, NEW t \in Txs, NEW answer \in _read_sync(i, t)
    PROVE  /\ answer.kind = "paid" => chain[t] = "success"
           /\ answer.kind = "reverted" => chain[t] = "reverted"
           /\ answer.depth \in 0..MaxDepth
<1>1. \A kind, d : Receipt(kind, d).kind = kind /\ Receipt(kind, d).depth = d
  BY Zenon DEF Receipt
<1>2. /\ ReadError.kind = "error" /\ NoReceipt.kind = "none"
      /\ ReadError.depth = 0 /\ NoReceipt.depth = 0
  BY Zenon DEF ReadError, NoReceipt
<1>3. 0 \in 0..MaxDepth /\ \A d \in 1..MaxDepth : d \in 0..MaxDepth
  BY IntentsAssumption
<1> DEFINE seen(d) == IF chain[t] = "reverted" THEN Receipt("reverted", d)
                      ELSE IF Transfers(i, t) THEN Receipt("paid", d)
                      ELSE ReadError
           mined == UNION {_rpc(seen(d), seen(0)) : d \in 1..MaxDepth}
           Sound(a) == /\ a.kind = "paid" => chain[t] = "success"
                       /\ a.kind = "reverted" => chain[t] = "reverted"
                       /\ a.depth \in 0..MaxDepth
<1>4. Sound(ReadError) /\ Sound(NoReceipt)
  BY <1>2, <1>3, Zenon
<1>5. ASSUME answer \in _read_blockscout(i, t) PROVE Sound(answer)
  <2>1. CASE chain[t] = "success" /\ Transfers(i, t)
    <3>1. PICK d \in 1..MaxDepth : answer = Receipt("paid", d)
      BY <1>5, <2>1, Zenon DEF _read_blockscout
    <3> QED
      BY <1>1, <1>3, <2>1, <3>1
  <2>2. CASE ~(chain[t] = "success" /\ Transfers(i, t))
    <3>1. answer \in {ReadError, NoReceipt}
      BY <1>5, <2>2, Zenon DEF _read_blockscout
    <3> HIDE DEF Sound
    <3> QED
      BY <1>4, <3>1, Zenon
  <2> QED
    BY <2>1, <2>2, Zenon
<1>6. ASSUME Mined(t), answer \in mined PROVE Sound(answer)
  <2>1. \A d \in 0..MaxDepth : Sound(seen(d))
    <3> TAKE d \in 0..MaxDepth
    <3>1. CASE chain[t] = "reverted"
      BY <1>1, <3>1, Zenon
    <3>2. CASE chain[t] # "reverted" /\ Transfers(i, t)
      BY <1>1, <1>6, <3>2 DEF Mined
    <3>3. CASE chain[t] # "reverted" /\ ~Transfers(i, t)
      BY <1>4, <3>3, Zenon
    <3> QED
      BY <3>1, <3>2, <3>3, Zenon
  <2> HIDE DEF Sound, seen
  <2>2. PICK d \in 1..MaxDepth : answer \in _rpc(seen(d), seen(0))
    BY <1>6, Zenon
  <2>3. answer \in {seen(d), seen(0), ReadError}
    BY <2>2, Zenon DEF _rpc
  <2> QED
    BY <1>3, <1>4, <2>1, <2>3, Zenon
<1> HIDE DEF Sound
<1>7. answer \in _read_blockscout(i, t) \/ (Mined(t) /\ answer \in mined)
  BY Zenon DEF _read_sync
<1>8. Sound(answer)
  BY <1>5, <1>6, <1>7, Zenon
<1> QED
  BY <1>8, Zenon DEF Sound

-----------------------------------------------------------------------------
(* The steps of the Arena's recovery worker *)

\* What the reader keeps in hand when it moves to another pc.
LEMMA ReaderMoves ==
    ASSUME PipelineInv, UNCHANGED submission, UNCHANGED chain,
           NEW pc \in {"scan", "target", "revert", "confirm", "commit"},
           NEW rest \in SUBSET reader.queue, NEW i \in Intents \cup {NoIntent},
           NEW depth \in 0..MaxDepth, reader' = ReaderAt(pc, rest, i, depth),
           pc \in {"revert", "confirm", "commit"} => i \in Intents,
           pc \in {"revert", "confirm"} => submission[i].tx \in Txs,
           pc = "revert" => chain[submission[i].tx] = "reverted",
           pc = "confirm" => chain[submission[i].tx] = "success" /\ depth \in 1..MaxDepth
    PROVE  ReaderPart
<1>1. /\ reader'.pc = pc /\ reader'.queue = rest /\ reader'.intent = i /\ reader'.depth = depth
      /\ reader' = [pc |-> pc, queue |-> rest, intent |-> i, depth |-> depth]
  BY Zenon DEF ReaderAt
<1>2. reader.queue \in SUBSET Targets
  BY Zenon DEF PipelineInv, PipelineTypeOK, ReaderState
<1>3. reader' \in ReaderState
  BY <1>1, <1>2, Zenon DEF ReaderState
<1>4. \A target \in rest : submission[target.intent].tx \in Txs
  BY Zenon DEF PipelineInv, ReaderKnows
<1>5. ReaderKnows'
  BY <1>1, <1>4, Zenon DEF ReaderKnows
<1> QED
  BY <1>3, <1>5, Zenon DEF ReaderPart

LEMMA ReaderIdles ==
    ASSUME PipelineInv, UNCHANGED chain, reader' = ReaderIdle PROVE ReaderPart
<1>1. /\ reader'.pc = "scan" /\ reader'.queue = {}
      /\ reader' = [pc |-> "scan", queue |-> {}, intent |-> NoIntent, depth |-> 0]
  BY Zenon DEF ReaderIdle, ReaderAt
<1>2. 0 \in 0..MaxDepth
  BY IntentsAssumption
<1>3. reader' \in ReaderState
  BY <1>1, <1>2 DEF ReaderState
<1>4. ReaderKnows'
  BY <1>1, Zenon DEF ReaderKnows
<1> QED
  BY <1>3, <1>4, Zenon DEF ReaderPart

LEMMA ReaderScans == ASSUME PipelineInv, ReaderScan PROVE StepParts
<1>1. UNCHANGED ledgerVars /\ UNCHANGED clock /\ UNCHANGED arenaVars /\ UNCHANGED chain
      /\ proc' = proc
  BY Zenon DEF ReaderScan, ReaderFrame, chainVars
<1>2. submission' = submission
  BY <1>1, Zenon DEF arenaVars, intentVars
<1> DEFINE queue == {[intent |-> i, status |-> intent[i]] : i \in {j \in Intents : Recoverable(j)}}
<1>3. reader' = ReaderAt("target", queue, NoIntent, 0)
  BY Zenon DEF ReaderScan
<1>4. \A target \in queue : target \in Targets /\ submission[target.intent].tx \in Txs
  <2> SUFFICES ASSUME NEW i \in Intents, Recoverable(i)
               PROVE  /\ [intent |-> i, status |-> intent[i]] \in Targets
                      /\ submission[i].tx \in Txs
    OBVIOUS
  <2>1. intent[i] \in IntentStatus /\ submission[i].tx \in Txs \cup {NoTx}
    BY Zenon DEF PipelineInv, ArenaInv, ArenaTypeOK
  <2>2. submission[i].tx # NoTx
    BY Zenon DEF PipelineInv, ArenaInv, EvidenceComplete, Recoverable, Submitted
  <2> QED
    BY <2>1, <2>2, Zenon DEF Targets
<1> HIDE DEF queue
<1>5. /\ reader'.pc = "target" /\ reader'.queue = queue
      /\ reader' = [pc |-> "target", queue |-> queue, intent |-> NoIntent, depth |-> 0]
  BY <1>3, Zenon DEF ReaderAt
<1>6. 0 \in 0..MaxDepth
  BY IntentsAssumption
<1>7. ReaderPart
  BY <1>2, <1>4, <1>5, <1>6 DEF ReaderPart, ReaderState, ReaderKnows
<1> QED
  BY <1>1, <1>7, LocalKind, Zenon DEF ProcPart

LEMMA ReaderTargets == ASSUME PipelineInv, ReaderTarget PROVE StepParts
<1>1. UNCHANGED ledgerVars /\ UNCHANGED clock /\ UNCHANGED arenaVars /\ UNCHANGED chain
      /\ proc' = proc
  BY Zenon DEF ReaderTarget, ReaderFrame, chainVars
<1>2. submission' = submission
  BY <1>1, Zenon DEF arenaVars, intentVars
<1> SUFFICES ReaderPart
  BY <1>1, LocalKind, Zenon DEF ProcPart
<1>3. CASE reader' = ReaderIdle
  BY <1>1, <1>3, ReaderIdles, Zenon
<1>4. ASSUME NEW target \in reader.queue, ReaderAnswer(target, reader.queue \ {target})
      PROVE  ReaderPart
  <2> DEFINE i == target.intent
             t == submission[i].tx
             rest == reader.queue \ {target}
  <2>1. i \in Intents /\ t \in Txs /\ rest \in SUBSET reader.queue /\ 0 \in 0..MaxDepth
    BY IntentsAssumption DEF PipelineInv, PipelineTypeOK, ReaderState, Targets, ReaderKnows
  <2>2. CASE reader' = ReaderAt("commit", rest, i, 0)
    BY <1>1, <1>2, <2>1, <2>2, ReaderMoves, Zenon
  <2>3. CASE reader' = ReaderAt("target", rest, NoIntent, 0)
    BY <1>1, <1>2, <2>1, <2>3, ReaderMoves, Zenon
  <2>4. ASSUME NEW answer \in _read_sync(i, t), answer.kind = "reverted",
               reader' = ReaderAt("revert", rest, i, 0)
        PROVE  ReaderPart
    <3>1. chain[t] = "reverted"
      BY <2>1, <2>4, ReadSound, Zenon
    <3> QED
      BY <1>1, <1>2, <2>1, <2>4, <3>1, ReaderMoves, Zenon
  <2>5. ASSUME NEW answer \in _read_sync(i, t), answer.kind = "paid",
               answer.depth >= RequiredConfirmations,
               reader' = ReaderAt("confirm", rest, i, answer.depth)
        PROVE  ReaderPart
    <3>1. chain[t] = "success" /\ answer.depth \in 0..MaxDepth
      BY <2>1, <2>5, ReadSound, Zenon
    <3>2. answer.depth \in 1..MaxDepth
      BY <2>5, <3>1, IntentsAssumption
    <3> QED
      BY <1>1, <1>2, <2>1, <2>5, <3>1, <3>2, ReaderMoves, Zenon
  <2> QED
    BY <1>3, <1>4, <2>2, <2>3, <2>4, <2>5, Zenon DEF ReaderAnswer
<1> QED
  BY <1>3, <1>4, Zenon DEF ReaderTarget

\* The three calls that write down what the reader has read.
LEMMA ReaderWrites ==
    ASSUME PipelineInv, ReaderRevert \/ ReaderConfirm \/ ReaderCommit
    PROVE  StepParts
<1>1. UNCHANGED ledgerVars /\ UNCHANGED clock /\ UNCHANGED chain /\ proc' = proc
  BY Zenon DEF ReaderRevert, ReaderConfirm, ReaderCommit, ReaderFrame, chainVars
<1>2. /\ ArenaTypeOK /\ ReaderKnows /\ reader.queue \in SUBSET reader.queue /\ 0 \in 0..MaxDepth
  <2>1. ArenaTypeOK /\ ReaderKnows
    BY Zenon DEF PipelineInv, ArenaInv
  <2>2. 0 \in 0..MaxDepth
    BY IntentsAssumption
  <2> QED
    BY <2>1, <2>2, Zenon
<1>3. ASSUME ArenaPart, ArenaHonest, ReaderPart PROVE StepParts
  BY <1>1, <1>3, ArenaKind, Zenon DEF ProcPart
<1>4. CASE UNCHANGED arenaVars /\ reader' = ReaderIdle
  BY <1>1, <1>3, <1>4, QuietArena, ReaderIdles, Zenon
<1>5. CASE ReaderRevert
  <2> DEFINE i == reader.intent
  <2>1. i \in Intents /\ submission[i].tx \in Txs /\ chain[submission[i].tx] = "reverted"
    BY <1>2, <1>5, Zenon DEF ReaderRevert, ReaderKnows
  <2>2. CASE record_chain_reverted(i, submission[i].tx) /\ ReaderNext
    <3>1. ArenaPart /\ ArenaHonest /\ submission' = submission
      BY <1>2, <2>1, <2>2, RevertedHonest, Zenon DEF record_chain_reverted
    <3>2. ReaderPart
      BY <1>1, <1>2, <2>2, <3>1, ReaderMoves, Zenon DEF ReaderNext, ReaderGo
    <3> QED
      BY <1>3, <3>1, <3>2, Zenon
  <2> QED
    BY <1>4, <1>5, <2>2, Zenon DEF ReaderRevert
<1>6. CASE ReaderConfirm
  <2> DEFINE i == reader.intent
  <2>1. /\ i \in Intents /\ submission[i].tx \in Txs /\ chain[submission[i].tx] = "success"
        /\ reader.depth \in 1..MaxDepth
    BY <1>2, <1>6, Zenon DEF ReaderConfirm, ReaderKnows
  <2>2. CASE record_chain_confirmation(i, submission[i].tx, reader.depth) /\ ReaderGo("commit", i, 0)
    <3>1. ArenaPart /\ ArenaHonest /\ submission' = submission
      BY <1>2, <2>1, <2>2, ConfirmationHonest, Zenon DEF record_chain_confirmation
    <3>2. ReaderPart
      BY <1>1, <1>2, <2>1, <2>2, <3>1, ReaderMoves, Zenon DEF ReaderGo
    <3> QED
      BY <1>3, <3>1, <3>2, Zenon
  <2> QED
    BY <1>4, <1>6, <2>2, Zenon DEF ReaderConfirm
<1>7. CASE ReaderCommit
  <2> DEFINE i == reader.intent
  <2>1. i \in Intents
    BY <1>2, <1>7, Zenon DEF ReaderCommit, ReaderKnows
  <2>2. CASE commit_confirmed_inventory(i) /\ ReaderNext
    <3>1. ArenaPart /\ ArenaHonest /\ submission' = submission
      BY <1>2, <2>1, <2>2, CommitHonest, Zenon DEF commit_confirmed_inventory
    <3>2. ReaderPart
      BY <1>1, <1>2, <2>2, <3>1, ReaderMoves, Zenon DEF ReaderNext, ReaderGo
    <3> QED
      BY <1>3, <3>1, <3>2, Zenon
  <2> QED
    BY <1>4, <1>7, <2>2, Zenon DEF ReaderCommit
<1> QED
  BY <1>5, <1>6, <1>7, Zenon

-----------------------------------------------------------------------------
(* The steps of the environment *)

LEMMA MarketSteps == ASSUME PipelineInv, MarketStep PROVE StepParts
<1>1. UNCHANGED ledgerVars /\ UNCHANGED clock /\ UNCHANGED chain /\ proc' = proc /\ reader' = reader
  BY Zenon DEF MarketStep, chainVars
<1>2. ArenaPart
  BY Zenon DEF MarketStep, ArenaPart, ArenaNext
<1>3. submission' = submission /\ \A j \in Intents : \/ intent'[j] = intent[j]
                                                      \/ intent'[j] = "authorization_requested"
  <2>1. intent \in [Intents -> IntentStatus]
    BY Zenon DEF PipelineInv, ArenaInv, ArenaTypeOK
  <2>2. CASE UNCHANGED intentVars
    BY <2>2, Zenon DEF intentVars
  <2>3. ASSUME NEW i \in Intents, FreezeIntent(i)
        PROVE  submission' = submission /\ \A j \in Intents : \/ intent'[j] = intent[j]
                                                               \/ intent'[j] = "authorization_requested"
    BY <2>1, <2>3, Zenon DEF FreezeIntent
  <2>4. UNCHANGED intentVars \/ \E i \in Intents : FreezeIntent(i)
    <3>1. ASSUME NEW i \in Intents, Accept(i) PROVE UNCHANGED intentVars \/ FreezeIntent(i)
      BY <3>1, Zenon DEF Accept
    <3>2. ASSUME NEW i \in Intents, Engage(i) \/ EndNegotiation(i) PROVE UNCHANGED intentVars
      BY <3>2, Zenon DEF Engage, EndNegotiation
    <3>3. CASE \/ materialize_agent_market_engagements \/ complete_hosted_run
               \/ advance_round_or_game
      BY <3>3, Zenon DEF materialize_agent_market_engagements, complete_hosted_run,
           advance_round_or_game
    <3> QED
      BY <3>1, <3>2, <3>3, Zenon DEF MarketStep
  <2> QED
    BY <2>2, <2>3, <2>4, Zenon
<1>4. ArenaHonest
  BY <1>3, PlainHonest, Zenon DEF Confirmed
<1> QED
  BY <1>1, <1>2, <1>4, ArenaKind, Zenon DEF ProcPart, ReaderPart

LEMMA PlayerSteps == ASSUME PipelineInv, PlayerStep PROVE StepParts
<1>1. UNCHANGED clock /\ UNCHANGED arenaVars /\ UNCHANGED chain /\ proc' = proc /\ reader' = reader
  BY Zenon DEF PlayerStep, chainVars
<1>2. LedgerCall
  BY Zenon DEF PlayerStep, LedgerCall
<1>3. reservation' = reservation
  BY Zenon DEF PlayerStep, create_mandate, revoke_mandate
<1>4. LedgerHonest
  BY <1>3, Zenon DEF LedgerHonest
<1> QED
  BY <1>1, <1>2, <1>4, LedgerKind, Zenon DEF ProcPart

LEMMA OtherSteps == ASSUME PipelineInv, LeaseExpires \/ Crash PROVE StepParts
<1>1. UNCHANGED ledgerVars /\ UNCHANGED clock /\ UNCHANGED arenaVars /\ UNCHANGED chain
  BY Zenon DEF LeaseExpires, Crash, chainVars
<1>2. CASE LeaseExpires
  BY <1>1, <1>2, LocalKind, Zenon DEF LeaseExpires, ProcPart, ReaderPart
<1>3. CASE Crash
  <2>1. ASSUME NEW w \in Workers, EndCycle(w), UNCHANGED reader PROVE StepParts
    BY <1>1, <2>1, EndMoves, LocalKind, PipelineAssumption, Zenon DEF ReaderPart
  <2>2. ASSUME reader' = ReaderIdle, UNCHANGED proc PROVE StepParts
    BY <1>1, <2>2, ReaderIdles, LocalKind, Zenon DEF ProcPart
  <2> QED
    BY <1>3, <2>1, <2>2, Zenon DEF Crash
<1> QED
  BY <1>2, <1>3, Zenon

-----------------------------------------------------------------------------
(* All steps *)

\* What the pipeline starts with, its two books aside.
LEMMA PipelineStarts ==
    ASSUME PipelineInit, LedgerInv, ArenaInv PROVE PipelineInv
<1>3. Idle \in LocalState /\ Idle.pc = "idle"
  BY LocalRow DEF Idle, Pcs
<1>4. /\ proc \in [Procs -> LocalState] /\ InHand
  BY <1>3, Zenon DEF PipelineInit, InHand, Knows, Between, MandatePcs, TxPcs, RecoveryPcs
<1>5. reader \in ReaderState /\ ReaderKnows
  <2>1. /\ reader = [pc |-> "scan", queue |-> {}, intent |-> NoIntent, depth |-> 0]
        /\ reader.pc = "scan" /\ reader.queue = {}
    BY Zenon DEF PipelineInit, ReaderIdle, ReaderAt
  <2>2. 0 \in 0..MaxDepth
    BY IntentsAssumption
  <2>3. reader \in ReaderState
    BY <2>1, <2>2, Zenon DEF ReaderState
  <2>4. ReaderKnows
    BY <2>1, Zenon DEF ReaderKnows
  <2> QED
    BY <2>3, <2>4, Zenon
<1>6. chain \in [Txs -> {"none", "pending", "success", "reverted"}] /\ PaidOnce
  BY Zenon DEF PipelineInit, ChainInit, PaidOnce
<1>7. ASSUME NEW i \in Intents PROVE DealBooks(i)
  <2>1. submission[i].tx = NoTx /\ intent[i] = "none"
    BY Zenon DEF PipelineInit, ArenaInit, NoSubmission
  <2>2. reservation[i].tx = NoTx /\ reservation[i].status = "none"
    BY Zenon DEF PipelineInit, NoReservation
  <2> QED
    BY <2>1, <2>2, Zenon DEF DealBooks, Confirmed
<1> QED
  BY <1>4, <1>5, <1>6, <1>7, Zenon DEF PipelineInv, PipelineTypeOK

\* Every step of the pipeline.
LEMMA PipelineSteps ==
    ASSUME PipelineInv, ArenaPart => RowsKept, [PipelineNext]_vars PROVE StepParts
<1>1. CASE UNCHANGED vars
  BY <1>1, LocalKind, Zenon DEF vars, chainVars, ReaderPart, ProcPart
<1>2. ASSUME NEW p \in Procs, CoordinatorStep(p) PROVE StepParts
  BY <1>2, LocalSteps, LedgerSteps, ArenaSteps, RelaySteps, Zenon DEF CoordinatorStep
<1>3. ASSUME NEW w \in Workers, WorkerStep(w) PROVE StepParts
  BY <1>2, <1>3, LocalSteps, LedgerSteps, ArenaSteps, FenceSteps, PipelineAssumption, Zenon
       DEF WorkerStep
<1>4. ASSUME NEW c \in Callers, NEW i \in Intents, ExecuteRequest(c, i) PROVE StepParts
  BY <1>4, LocalSteps, PipelineAssumption, Zenon
<1>5. ASSUME NEW p \in Procs, Timeout(p) \/ \E i \in Intents : RelayStep(p, i) PROVE StepParts
  BY <1>5, LocalSteps, RelaySteps, Zenon
<1>6. CASE ReaderStep
  BY <1>6, ReaderScans, ReaderTargets, ReaderWrites, Zenon DEF ReaderStep
<1>7. CASE \/ \E t \in Txs : MineStep(t)
           \/ LeaseExpires \/ Crash \/ MarketStep \/ PlayerStep
  BY <1>7, MineSteps, OtherSteps, MarketSteps, PlayerSteps, Zenon
<1> QED
  BY <1>1, <1>2, <1>3, <1>4, <1>5, <1>6, <1>7, PipelineAssumption, Zenon DEF PipelineNext,
       SettlementNext
=============================================================================
