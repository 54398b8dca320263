-------------------------- MODULE Settlement_proofs --------------------------
(***************************************************************************)
(* The theorems about the composed pipeline, for every number of deals,    *)
(* workers, callers and transactions: each book keeps what it promises on  *)
(* its own, the books agree with the chain, broadcasts are serial, and a   *)
(* payment is sent once, stays backed by its budget and is not written     *)
(* off.  The steps are proved in SettlementPipeline_proofs and             *)
(* SettlementWorkers_proofs.                                               *)
(***************************************************************************)
EXTENDS SettlementBooks_proofs, SettlementPipeline_proofs, SettlementWorkers_proofs

-----------------------------------------------------------------------------
(* The books and the chain *)

\* The Arena's rows keep their invariant, and a recorded submission stays.
LEMMA ArenaKept ==
    ASSUME ArenaInv, ArenaPart
    PROVE  ArenaInv' /\ RowsKept
<1>1. ArenaTypeOK'
  BY ArenaTypeStep, Zenon DEF ArenaInv, ArenaPart
<1>2. CASE ArenaNext
  <2>1. ArenaInv' /\ \A j \in Intents : Forward(j)
    BY <1>1, <1>2, ArenaInvNext, Zenon
  <2>2. \A j \in Intents : submission[j].tx # NoTx => submission[j] # NoSubmission
    BY DEF NoSubmission
  <2> QED
    BY <2>1, <2>2, Zenon DEF Forward, RowsKept
<1>3. CASE UNCHANGED arenaVars
  <2>1. submission' = submission
    BY <1>3, Zenon DEF arenaVars, intentVars
  <2> QED
    BY <1>3, <2>1, ArenaStutter, Zenon DEF RowsKept
<1> QED
  BY <1>2, <1>3, Zenon DEF ArenaPart

\* A step whose parts are in order keeps the invariant.
LEMMA AssembleStep ==
    ASSUME PipelineInv, StepParts
    PROVE  PipelineInv' /\ RowsKept
<1>1. ArenaInv' /\ RowsKept
  BY ArenaKept, Zenon DEF PipelineInv, StepParts
<1>2. LedgerInv'
  BY LedgerTypeCall, LedgerInvCall, Zenon DEF PipelineInv, LedgerInv, StepParts, LedgerPart
<1>3. PipelineTypeOK' /\ InHand' /\ ReaderKnows' /\ PaidOnce'
  BY <1>1, ProcKept, ReaderKept, Zenon DEF StepParts, PipelineTypeOK, ChainPart
<1>4. \A i \in Intents : DealBooks(i)'
  BY <1>1, <1>2, BooksKept, Zenon DEF StepParts, LedgerInv
<1> QED
  BY <1>1, <1>2, <1>3, <1>4 DEF PipelineInv

\* Both books start in order.
LEMMA BooksStart == ASSUME PipelineInit PROVE LedgerInv /\ ArenaInv
<1>1. LedgerTypeOK
  BY StatusRows, ReservationRows, LedgerAssumption DEF MandateRow, NoMandateRow, PipelineInit,
       LedgerTypeOK
<1>2. \A m \in Mandates : mandate[m].reserved = 0 /\ mandate[m].consumed = 0
  BY StatusRows DEF MandateRow, NoMandateRow, PipelineInit
<1>3. LedgerInv
  BY <1>1, <1>2, EmptyLedger, Zenon DEF PipelineInit
<1>4. ArenaInv
  BY ArenaTypeInit, ArenaInvInit, Zenon DEF PipelineInit
<1> QED
  BY <1>3, <1>4, Zenon

\* Every step of the pipeline keeps the invariant and the recorded rows.
LEMMA PipelineKept == ASSUME PipelineInv, [PipelineNext]_vars PROVE PipelineInv' /\ RowsKept
<1>1. ArenaPart => RowsKept
  BY ArenaKept, Zenon DEF PipelineInv
<1>2. StepParts
  BY <1>1, PipelineSteps, Zenon
<1> QED
  BY <1>2, AssembleStep, Zenon

\* The invariant of the pipeline, for every number of deals, workers and
\* callers, for every fault and every interleaving.
THEOREM PipelineInvariant == PipelineSpec => []PipelineInv
<1>1. PipelineInit => PipelineInv
  BY BooksStart, PipelineStarts, Zenon
<1>2. PipelineInv /\ [PipelineNext]_vars => PipelineInv'
  BY PipelineKept, Zenon
<1> QED
  BY <1>1, <1>2, PTL DEF PipelineSpec

\* Goods move and budget is consumed only for a deal whose own transaction
\* succeeded, whoever crashes, times out or is refused on the way, and with
\* any number of workers and callers of the x402 endpoint at work.
THEOREM PipelineBooks == PipelineSpec => []BooksMatchChain
<1>1. PipelineInv => BooksMatchChain
  <2> SUFFICES ASSUME PipelineInv, NEW i \in Intents
               PROVE  /\ intent[i] \in Confirmed =>
                            chain[submission[i].tx] = "success" /\ TxIntent[submission[i].tx] = i
                      /\ reservation[i].status = "consumed" =>
                            chain[reservation[i].tx] = "success" /\ reservation[i].tx = submission[i].tx
    BY Zenon DEF BooksMatchChain
  <2>1. intent[i] \in Confirmed => submission[i].tx # NoTx
    BY Zenon DEF PipelineInv, ArenaInv, EvidenceComplete, Confirmed, Submitted
  <2> QED
    BY <2>1, Zenon DEF PipelineInv, DealBooks
<1> QED
  BY <1>1, PipelineInvariant, PTL

\* In the composed pipeline the counters of a mandate are the sums of its
\* reservations and stay within its limit: the workers, the callers and the
\* players together make no sequence of ledger calls that breaks either.
THEOREM PipelineBudget == PipelineSpec => [](BudgetAccounts /\ WithinBudget)
<1>1. PipelineInv => BudgetAccounts /\ WithinBudget
  BY Zenon DEF PipelineInv, LedgerInv
<1> QED
  BY <1>1, PipelineInvariant, PTL

\* In the composed pipeline the commit of a paid deal is never refused for
\* missing cash or goods.
THEOREM PipelineCommit == PipelineSpec => []CommitNeverRefused
<1>1. PipelineInv => CommitNeverRefused
  BY Zenon DEF PipelineInv, ArenaInv
<1> QED
  BY <1>1, PipelineInvariant, PTL

\* The leases are sound for every number of deals, workers, callers and
\* transactions, and under every other fault, as long as a lease outlives the
\* calls made under it.
THEOREM LeaseInvariant == ASSUME "stall" \notin Faults PROVE PipelineSpec => []LeaseInv
<1>1. PipelineInit => LeaseInv
  BY LeaseStarts, Zenon
<1>2. PipelineInv /\ LeaseInv /\ [PipelineNext]_vars => LeaseInv'
  BY PipelineKept, LeaseSteps, Zenon
<1> QED
  BY <1>1, <1>2, PipelineInvariant, PTL DEF PipelineSpec

\* Broadcasts of one facilitator account are serial: at most one attempt is
\* unresolved, whatever the workers, the callers and the crashes do.
THEOREM PipelineSerial == ASSUME "stall" \notin Faults PROVE PipelineSpec => []SerialBroadcast
<1>1. LeaseInv => SerialBroadcast
  BY Zenon DEF LeaseInv, OnePending, Pending, SerialBroadcast, Unresolved, Recorded
<1> QED
  BY <1>1, LeaseInvariant, PTL

\* What was sent, without callers of the x402 endpoint.
THEOREM SendInvariant ==
    ASSUME "stall" \notin Faults, Callers = {} PROVE PipelineSpec => []SendInv
<1>1. PipelineInit => SendInv
  BY SendStarts, Zenon
<1>2. PipelineInv /\ LeaseInv /\ SendInv /\ [PipelineNext]_vars => SendInv'
  BY SendSteps, Zenon
<1> QED
  BY <1>1, <1>2, PipelineInvariant, LeaseInvariant, PTL DEF PipelineSpec

\* One authorization is broadcast at most once by the workers: no crash, no
\* timeout and no second worker makes a relay send the same payment again.
THEOREM PipelineOnce ==
    ASSUME "stall" \notin Faults, Callers = {} PROVE PipelineSpec => []BroadcastOnce
<1>1. SendInv => BroadcastOnce
  BY Zenon DEF SendInv, SentOnce, Relayed, OnChain, BroadcastOnce, Sendings
<1> QED
  BY <1>1, SendInvariant, PTL

\* The budget of a payment that may have been sent stays locked, whatever
\* crashed, timed out or was refused in the meantime.
THEOREM PipelineLocked ==
    ASSUME "stall" \notin Faults, Callers = {} PROVE PipelineSpec => []BudgetLocked
<1>1. SendInv => BudgetLocked
  BY Zenon DEF SendInv
<1> QED
  BY <1>1, SendInvariant, PTL

\* A deal whose payment may have been sent is not written off: a worker that
\* gives a deal up (automatic_worker.py: fail_settlement, and the handler of
\* _execute) knows that nothing was sent, and nothing is sent afterwards.  No
\* mandate may be created in the meantime: one that is, between the read of a
\* worker that finds none and its call of fail_settlement, lets another
\* worker pay the deal that the first one then writes off.
THEOREM PipelineNeverFailed ==
    ASSUME "stall" \notin Faults, Callers = {}, InitialMandates = Mandates
    PROVE  PipelineSpec => []PaidNeverFailed
<1>1. PipelineInit => WriteOffInv
  BY WriteOffStarts, Zenon
<1>2. PipelineInv /\ PipelineInv' /\ LeaseInv /\ SendInv /\ WriteOffInv /\ [PipelineNext]_vars => WriteOffInv'
  BY WriteOffSteps, Zenon
<1>3. PipelineInv /\ SendInv /\ WriteOffInv => PaidNeverFailed
  BY RevertedOver, Zenon DEF WriteOffInv, PaidNeverFailed
<1> QED
  BY <1>1, <1>2, <1>3, PipelineInvariant, LeaseInvariant, SendInvariant, PTL DEF PipelineSpec
=============================================================================
