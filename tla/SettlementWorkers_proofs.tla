---------------------- MODULE SettlementWorkers_proofs ----------------------
(***************************************************************************)
(* What the leases do for the workers of one facilitator account, as long  *)
(* as a lease outlives the calls made under it (no "stall"): the attempts  *)
(* and the broadcast fence keep the workers apart, so that a payment is    *)
(* sent once, its budget stays locked and it is not written off.           *)
(***************************************************************************)
EXTENDS SettlementInvariants, TLAPS

AttemptStatus == {"none", "reserved", "signed", "submitting", "submitted", "failed", "unknown"}
AttemptState == [status : AttemptStatus, owner : Workers \cup {NoWorker}, expired : BOOLEAN]
FenceState ==
    [intent : Intents \cup {NoIntent}, owner : Workers \cup {NoWorker}, expired : BOOLEAN]

LeaseTypeOK ==
    /\ attempt \in [Intents -> AttemptState]
    /\ fence \in FenceState
    /\ relay \in SUBSET (Procs \X Intents)

-----------------------------------------------------------------------------
(* The invariant of the leases *)

Before == {"none", "reserved", "signed"}
Preparing == {"fence", "defer", "sign", "mark_submitting", "h_fence", "h_release", "h_mark"}
Fenced == {"sign", "mark_submitting"}
Executing == {"x_reserve", "verify", "x_release", "approve", "settle", "wait", "record", "submit",
              "fail", "mark"}
Recovering == {"r_submit", "r_record", "r_fence"}
Outcomes == {"submitted", "failed", "unknown"}

\* What the attempt row a says of the worker w with local state r.
Leased(w, r, a) ==
    /\ r.pc \in Preparing =>
          a.owner = w /\ ~a.expired /\ a.status \in {"reserved", "signed"}
    /\ r.pc \in Executing => a.owner = w /\ a.status = "submitting"
    /\ r.pc \in {"fail", "mark"} => r.result \in Outcomes
    /\ r.pc = "h_fail" => a.status = "failed"
    /\ r.pc \in Recovering => a.status \notin Before

Leases ==
    /\ \A w \in Workers : proc[w].pc \notin Between => Leased(w, proc[w], attempt[proc[w].intent])
    /\ \A i \in Intents : attempt[i].status \in Outcomes => attempt[i].owner = NoWorker

\* The attempts that may have a transaction on its way.
Pending ==
    {i \in Intents : submission[i] = NoSubmission /\ attempt[i].status \in {"submitting", "unknown"}}

\* A worker about to sign holds the fence, and nothing else is on its way.
FenceGuards ==
    \A w \in Workers : proc[w].pc \in Fenced =>
        fence = FenceOf(proc[w].intent, w, FALSE) /\ Pending = {}

OnePending == \A i, j \in Pending : i = j

LeaseInv == LeaseTypeOK /\ Leases /\ FenceGuards /\ OnePending

-----------------------------------------------------------------------------
(* How a worker moves *)

\* The calls before a worker sends its payment, and those under a reservation.
Unsent == {"x_reserve", "verify", "x_release", "approve", "settle", "fail", "h_fail"}
Funded == {"verify", "approve", "settle"}

\* The control flow of a worker from pc a to pc b, as far as the invariants
\* tell the calls apart.
Edge(a, b) ==
    /\ b \in Preparing => a \in Preparing \cup {"claim"}
    /\ b \in Fenced => a \in {"fence", "sign"}
    /\ b \in Executing => a \in Executing \cup {"mark_submitting"}
    /\ b = "h_fail" => a = "h_mark"
    /\ b \in Recovering => a \in Recovering \/ b = "r_submit"
    /\ b = "r_submit" => a = "recover"
    /\ b \in Unsent => a \in Unsent \cup {"mark_submitting", "h_mark", "wait"}
    /\ b \in Funded => a \in Funded \cup {"x_reserve"}
    /\ b = "wait" => a = "settle"
    /\ b = "x_reserve" => a = "mark_submitting"
    /\ b = "no_mandate" => a = "queue"

Fresh == Between \cup {"reserve", "no_mandate", "r_submit"}

\* Process p moves along the control flow, and keeps its deal until it is done
\* with it.
Flow(p) ==
    /\ \A q \in Procs \ {p} : proc'[q] = proc[q]
    /\ Edge(proc[p].pc, proc'[p].pc)
    /\ proc'[p].pc \in Fresh \/ proc'[p].intent = proc[p].intent
    /\ proc'[p].pc \in {"fail", "mark"} => proc'[p].result \in Outcomes

\* What the invariant says of a process, and what the updates of its local
\* variables leave of them.
LEMMA ProcHand ==
    ASSUME PipelineInv, NEW p \in Procs
    PROVE  /\ proc[p] \in LocalState /\ Knows(proc[p], submission, chain)
           /\ proc[p].pc \in Pcs /\ proc[p].todo \in SUBSET Intents
           /\ proc[p].queue \in SUBSET Intents /\ proc[p].result \in Results
BY Zenon DEF PipelineInv, PipelineTypeOK, LocalState, InHand

LEMMA RowUpdates ==
    ASSUME NEW r \in LocalState
    PROVE  /\ \A t \in Txs : WithTx(r, t) \in LocalState /\ WithTx(r, t).intent = r.intent
           /\ \A x \in Results :
                 WithResult(r, x) \in LocalState /\ WithResult(r, x).intent = r.intent
           /\ \A why \in Reasons :
                 WithWhy(r, why) \in LocalState /\ WithWhy(r, why).intent = r.intent
BY Zenon DEF LocalState, WithTx, WithResult, WithWhy

LEMMA RowsStay == ASSUME UNCHANGED arenaVars PROVE RowsKept
BY Zenon DEF arenaVars, intentVars, RowsKept

\* Become changes one process.
LEMMA Become_ ==
    ASSUME PipelineInv, NEW p \in Procs, NEW r, Become(p, r)
    PROVE  proc'[p] = r /\ \A q \in Procs \ {p} : proc'[q] = proc[q]
BY Zenon DEF Become, PipelineInv, PipelineTypeOK

LEMMA Resting == \A a : \A b \in Between \cup {"reserve", "claim", "unfence"} : Edge(a, b)
BY DEF Edge, Between, Preparing, Fenced, Executing, Recovering, Unsent, Funded

LEMMA EndFlows == ASSUME PipelineInv, NEW p \in Procs, EndCycle(p) PROVE Flow(p)
<1>1. proc'[p] = Idle /\ \A q \in Procs \ {p} : proc'[q] = proc[q]
  BY Become_, Zenon DEF EndCycle
<1>2. proc'[p].pc = "idle"
  BY <1>1 DEF Idle, Local
<1> QED
  BY <1>1, <1>2, Resting, Zenon DEF Flow, Fresh, Between

LEMMA QueueFlows ==
    ASSUME PipelineInv, NEW p \in Procs, NEW S, Queue(p, S) \/ Recover(p, S)
    PROVE  Flow(p) /\ proc'[p].pc \in {"queue", "recover"}
<1>1. /\ \A q \in Procs \ {p} : proc'[q] = proc[q]
      /\ \/ proc'[p] = Local("queue", {}, S, NoIntent, NoMandate)
         \/ proc'[p] = Local("recover", S, {}, NoIntent, NoMandate)
  BY Become_, Zenon DEF Queue, Recover
<1>2. proc'[p].pc \in {"queue", "recover"}
  BY <1>1 DEF Local
<1> QED
  BY <1>1, <1>2, Resting, Zenon DEF Flow, Fresh, Between

LEMMA NextFlows ==
    ASSUME PipelineInv, NEW p \in Procs, NextTarget(p)
    PROVE  Flow(p) /\ proc'[p].pc \in Between
BY QueueFlows, Zenon DEF NextTarget, Between

LEMMA GotoFlows ==
    ASSUME PipelineInv, NEW p \in Procs, NEW b \in Pcs, Goto(p, b),
           Edge(proc[p].pc, b), b \in {"fail", "mark"} => proc[p].result \in Outcomes
    PROVE  Flow(p) /\ proc'[p].pc = b /\ proc'[p].intent = proc[p].intent
<1>1. /\ \A q \in Procs \ {p} : proc'[q] = proc[q]
      /\ proc'[p] = WithPc(proc[p], b)
  BY Become_, Zenon DEF Goto
<1>2. proc[p] \in LocalState
  BY ProcHand, Zenon DEF PipelineInv
<1>3. /\ proc'[p].pc = b /\ proc'[p].intent = proc[p].intent
      /\ proc'[p].result = proc[p].result
  BY <1>1, <1>2, Zenon DEF WithPc, LocalState
<1> QED
  BY <1>1, <1>3, Zenon DEF Flow

LEMMA ReturnFlows ==
    ASSUME PipelineInv, NEW p \in Procs, NEW result \in Outcomes, Return(p, result),
           p \notin Callers => Edge(proc[p].pc, AfterExecute(result))
    PROVE  /\ Flow(p)
           /\ p \notin Callers => proc'[p].pc = AfterExecute(result) /\ proc'[p].intent = proc[p].intent
<1>1. CASE p \in Callers
  BY <1>1, EndFlows, Zenon DEF Return, EndCycle, Become
<1>2. CASE p \notin Callers
  <2>1. /\ \A q \in Procs \ {p} : proc'[q] = proc[q]
        /\ proc'[p] = WithPc(WithResult(proc[p], result), AfterExecute(result))
    BY <1>2, Become_, Zenon DEF Return
  <2>2. proc[p] \in LocalState
    BY ProcHand, Zenon DEF PipelineInv
  <2>3. /\ WithResult(proc[p], result) \in LocalState /\ WithResult(proc[p], result).result = result
        /\ WithResult(proc[p], result).intent = proc[p].intent
    BY <2>2, Zenon DEF WithResult, LocalState, Results, Outcomes
  <2>4. /\ proc'[p].pc = AfterExecute(result) /\ proc'[p].intent = proc[p].intent
        /\ proc'[p].result = result
    BY <2>1, <2>3, Zenon DEF WithPc, LocalState
  <2> QED
    BY <1>2, <2>1, <2>4, Zenon DEF Flow
<1> QED
  BY <1>1, <1>2, Zenon

LEMMA ReleaseFlows ==
    ASSUME PipelineInv, NEW p \in Procs, NEW result \in Results, NEW why \in Reasons,
           ReleaseThen(p, result, why), Edge(proc[p].pc, "x_release")
    PROVE  /\ Flow(p) /\ proc'[p].pc = "x_release" /\ proc'[p].intent = proc[p].intent
           /\ proc'[p].result = result
<1>1. /\ \A q \in Procs \ {p} : proc'[q] = proc[q]
      /\ proc'[p] = WithPc(WithResult(WithWhy(proc[p], why), result), "x_release")
  BY Become_, Zenon DEF ReleaseThen
<1>2. WithWhy(proc[p], why) \in LocalState /\ WithWhy(proc[p], why).intent = proc[p].intent
  BY ProcHand, RowUpdates, Zenon DEF PipelineInv
<1>3. /\ WithResult(WithWhy(proc[p], why), result) \in LocalState
      /\ WithResult(WithWhy(proc[p], why), result).intent = proc[p].intent
      /\ WithResult(WithWhy(proc[p], why), result).result = result
  BY <1>2, Zenon DEF WithResult, LocalState
<1>4. /\ proc'[p].pc = "x_release" /\ proc'[p].intent = proc[p].intent /\ proc'[p].result = result
  BY <1>1, <1>3, Zenon DEF WithPc, LocalState
<1> QED
  BY <1>1, <1>4, Zenon DEF Flow

\* Every step of a worker is one along its control flow.
LEMMA LeaseFlows ==
    ASSUME PipelineInv, NEW w \in Procs,
           \/ RecoverFence(w) \/ ClaimAttempt(w) \/ ClaimFence(w) \/ Defer(w) \/ Sign(w)
           \/ MarkSubmitting(w) \/ MarkResult(w) \/ ReleaseFence(w)
           \/ HandlerFence(w) \/ HandlerMark(w)
    PROVE  Flow(w)
<1> USE DEF Preparing, Fenced, Executing, Recovering, Unsent, Funded
<1>1. /\ {"fence", "defer", "h_release", "sign", "mark_submitting", "h_fence", "x_reserve",
          "unfence", "h_fail"} \subseteq Pcs
  BY Zenon DEF Pcs
<1>2. ASSUME NEW a, NEW b \in Pcs \ {"fail", "mark"}, At(w, a), Edge(a, b), Goto(w, b) PROVE Flow(w)
  BY <1>2, GotoFlows, Zenon DEF At
<1>3. CASE RecoverFence(w)
  BY <1>3, QueueFlows, Zenon DEF RecoverFence
<1>4. CASE ClaimAttempt(w)
  <2>1. Edge("claim", "fence")
    BY Zenon DEF Edge
  <2> QED
    BY <1>1, <1>2, <1>4, <2>1, NextFlows, Zenon DEF ClaimAttempt
<1>5. CASE ClaimFence(w)
  <2>1. Edge("fence", "sign") /\ Edge("fence", "defer")
    BY Zenon DEF Edge
  <2> QED
    BY <1>1, <1>2, <1>5, <2>1, Zenon DEF ClaimFence
<1>6. CASE Defer(w)
  <2>1. Edge("defer", "h_release")
    BY Zenon DEF Edge
  <2> QED
    BY <1>1, <1>2, <1>6, <2>1, NextFlows, Zenon DEF Defer
<1>7. CASE Sign(w)
  <2>1. Edge("sign", "mark_submitting") /\ Edge("sign", "h_fence")
    BY Zenon DEF Edge
  <2> QED
    BY <1>1, <1>2, <1>7, <2>1, Zenon DEF Sign
<1>8. CASE MarkSubmitting(w)
  <2>1. Edge("mark_submitting", "x_reserve") /\ Edge("mark_submitting", "h_fence")
    BY Zenon DEF Edge
  <2> QED
    BY <1>1, <1>2, <1>8, <2>1, Zenon DEF MarkSubmitting
<1>9. CASE MarkResult(w)
  <2>1. Edge("mark", "unfence")
    BY Zenon DEF Edge
  <2> QED
    BY <1>1, <1>2, <1>9, <2>1, NextFlows, EndFlows, Zenon DEF MarkResult
<1>10. CASE ReleaseFence(w)
  BY <1>10, NextFlows, EndFlows, Zenon DEF ReleaseFence
<1>11. CASE HandlerFence(w)
  <2>1. Edge("h_fence", "h_release")
    BY Zenon DEF Edge
  <2> QED
    BY <1>1, <1>2, <1>11, <2>1, EndFlows, Zenon DEF HandlerFence
<1>12. CASE HandlerMark(w)
  <2>1. Edge("h_mark", "h_fail")
    BY Zenon DEF Edge
  <2> QED
    BY <1>1, <1>2, <1>12, <2>1, EndFlows, Zenon DEF HandlerMark
<1> QED
  BY <1>3, <1>4, <1>5, <1>6, <1>7, <1>8, <1>9, <1>10, <1>11, <1>12, Zenon

\* A process starts on a deal.
LEMMA StartFlows ==
    ASSUME PipelineInv, NEW w \in Procs,
           \/ StartCycle(w) \/ FindTransaction(w) \/ ScanTargets(w) \/ ReadMandate(w)
    PROVE  /\ Flow(w)
           /\ proc[w].pc \in Between
           /\ proc'[w].pc \in Fresh
           /\ proc'[w].pc = "r_submit" =>
                 proc[w].pc = "recover" /\ attempt[proc'[w].intent].status \in {"submitting", "unknown"}
           /\ proc'[w].pc = "no_mandate" => ActiveMandates(proc'[w].intent, clock) = {}
<1>1. CASE StartCycle(w) \/ ScanTargets(w)
  BY <1>1, QueueFlows, Zenon DEF StartCycle, ScanTargets, At, Between, Fresh
<1>2. ASSUME FindTransaction(w), EndCycle(w) \/ \E S : Recover(w, S)
      PROVE  Flow(w) /\ proc'[w].pc \in Between
  <2>1. proc'[w].pc \in Between
    <3>1. EndCycle(w) => proc'[w].pc = "idle"
      BY Become_ DEF EndCycle, Idle, Local
    <3> QED
      BY <1>2, <3>1, QueueFlows, Zenon DEF Between
  <2> QED
    BY <1>2, <2>1, QueueFlows, EndFlows, Zenon
<1>3. ASSUME NEW i \in proc[w].todo, NEW found \in Txs, FindTransaction(w),
             attempt[i].status \in {"submitting", "unknown"},
             Become(w, WithTx(Local("r_submit", proc[w].todo \ {i}, {}, i, NoMandate), found))
      PROVE  Flow(w) /\ proc'[w].pc = "r_submit" /\ proc'[w].intent = i
  <2>1. /\ \A q \in Procs \ {w} : proc'[q] = proc[q]
        /\ proc'[w] = WithTx(Local("r_submit", proc[w].todo \ {i}, {}, i, NoMandate), found)
    BY <1>3, Become_, Zenon
  <2>2. proc'[w].pc = "r_submit" /\ proc'[w].intent = i
    BY <2>1, Zenon DEF WithTx, Local
  <2>3. Edge("recover", "r_submit") /\ proc[w].pc = "recover"
    BY <1>3, Zenon DEF Edge, Preparing, Fenced, Executing, Recovering, Unsent, Funded,
         FindTransaction, At
  <2> QED
    BY <2>1, <2>2, <2>3, Zenon DEF Flow, Fresh
<1>4. CASE FindTransaction(w)
  <2>1. proc[w].pc = "recover"
    BY <1>4, Zenon DEF FindTransaction, At
  <2>2. \/ EndCycle(w) \/ \E S : Recover(w, S)
        \/ \E i \in proc[w].todo, found \in Txs :
              /\ attempt[i].status \in {"submitting", "unknown"}
              /\ Become(w, WithTx(Local("r_submit", proc[w].todo \ {i}, {}, i, NoMandate), found))
    BY <1>4, Zenon DEF FindTransaction
  <2> QED
    BY <1>2, <1>3, <1>4, <2>1, <2>2, Zenon DEF Between, Fresh
<1>5. CASE ReadMandate(w)
  <2>1. PICK pc \in {"reserve", "no_mandate"} : \E i, rest, m :
           /\ Become(w, Local(pc, {}, rest, i, m))
           /\ pc = "no_mandate" => ActiveMandates(i, clock) = {}
    BY <1>5, Zenon DEF ReadMandate
  <2>5. PICK i, rest, m :
           /\ Become(w, Local(pc, {}, rest, i, m))
           /\ pc = "no_mandate" => ActiveMandates(i, clock) = {}
    BY <2>1, Zenon
  <2>2. /\ \A q \in Procs \ {w} : proc'[q] = proc[q]
        /\ proc'[w] = Local(pc, {}, rest, i, m)
    BY <2>5, Become_, Zenon
  <2>3. proc'[w].pc = pc /\ proc'[w].intent = i
    BY <2>2 DEF Local
  <2>4. proc[w].pc = "queue"
    BY <1>5, Zenon DEF ReadMandate, At
  <2>6. Edge("queue", "no_mandate")
    BY Zenon DEF Edge, Preparing, Fenced, Executing, Recovering, Unsent, Funded
  <2> QED
    BY <2>1, <2>2, <2>3, <2>4, <2>5, <2>6, Resting, Zenon DEF Flow, Fresh, Between
<1> QED
  BY <1>1, <1>4, <1>5, Zenon

\* The calls of execute, of the recovery and of the two failures.
LEMMA CallFlows ==
    ASSUME PipelineInv, Leases, NEW w \in Workers,
           \/ RecoverSubmit(w) \/ RecoverRecord(w) \/ FailUnmandated(w) \/ Reconcile(w)
           \/ ReserveBudget(w) \/ CoordinatorReserve(w) \/ Verify(w) \/ CoordinatorRelease(w)
           \/ Approve(w) \/ SendSettle(w) \/ RecordSubmission(w) \/ SubmitReservation(w)
           \/ FailSettlement(w) \/ HandlerRelease(w) \/ HandlerFail(w) \/ Timeout(w)
    PROVE  Flow(w)
<1> USE DEF Preparing, Fenced, Executing, Recovering, Unsent, Funded
<1>1. w \in Procs /\ w \notin Callers
  BY PipelineAssumption, Zenon
<1>2. ASSUME NEW a, NEW b \in Pcs \ {"fail", "mark"}, At(w, a), Edge(a, b), Goto(w, b) PROVE Flow(w)
  BY <1>1, <1>2, GotoFlows, Zenon DEF At
<1>3. ASSUME NEW a, NEW result \in Outcomes, At(w, a), Edge(a, AfterExecute(result)), Return(w, result)
      PROVE  Flow(w)
  BY <1>1, <1>3, ReturnFlows, Zenon DEF At
<1>4. ASSUME NEW a, NEW result \in {"failed", "raise"}, NEW why \in Reasons, At(w, a),
             Edge(a, "x_release"), ReleaseThen(w, result, why)
      PROVE  Flow(w)
  <2>1. result \in Results
    BY Zenon DEF Results
  <2> QED
    BY <1>1, <1>4, <2>1, ReleaseFlows, Zenon DEF At
<1>5. /\ AfterExecute("failed") = "fail" /\ AfterExecute("submitted") = "mark"
      /\ AfterExecute("unknown") = "mark" /\ {"failed", "submitted", "unknown"} \subseteq Outcomes
  BY Zenon DEF AfterExecute, Outcomes
<1>6. {"r_record", "r_fence", "claim", "verify", "approve", "settle", "wait", "submit", "h_mark"}
         \subseteq Pcs \ {"fail", "mark"}
  BY DEF Pcs
<1>7. CASE RecoverSubmit(w)
  <2>1. Edge("r_submit", "r_record")
    BY Zenon DEF Edge
  <2> QED
    BY <1>1, <1>2, <1>6, <1>7, <2>1, EndFlows, Zenon DEF RecoverSubmit
<1>8. CASE RecoverRecord(w)
  <2>1. Edge("r_record", "r_fence")
    BY Zenon DEF Edge
  <2> QED
    BY <1>1, <1>2, <1>6, <1>8, <2>1, EndFlows, Zenon DEF RecoverRecord
<1>9. CASE FailUnmandated(w) \/ Reconcile(w) \/ HandlerFail(w)
  BY <1>1, <1>9, NextFlows, EndFlows, Zenon DEF FailUnmandated, Reconcile, HandlerFail
<1>10. CASE ReserveBudget(w)
  <2>1. Edge("reserve", "claim")
    BY Zenon DEF Edge
  <2> QED
    BY <1>1, <1>2, <1>6, <1>10, <2>1, EndFlows, Zenon DEF ReserveBudget
<1>11. CASE CoordinatorReserve(w)
  <2>1. Edge("x_reserve", "verify") /\ Edge("x_reserve", "fail") /\ Edge("x_reserve", "mark")
    BY Zenon DEF Edge
  <2>2. At(w, "x_reserve") /\ (Return(w, "submitted") \/ Return(w, "failed") \/ Goto(w, "verify") \/ EndCycle(w))
    BY <1>11, Zenon DEF CoordinatorReserve
  <2> QED
    BY <1>1, <1>2, <1>3, <1>5, <1>6, <2>1, <2>2, EndFlows, Zenon
<1>12. CASE Verify(w)
  <2>1. Edge("verify", "approve") /\ Edge("verify", "x_release")
    BY Zenon DEF Edge
  <2>2. At(w, "verify") /\ (Goto(w, "approve") \/ \E result \in {"failed", "raise"}, why \in Reasons : ReleaseThen(w, result, why))
    BY <1>12, PipelineAssumption, Zenon DEF Verify
  <2> QED
    BY <1>2, <1>4, <1>6, <2>1, <2>2, Zenon
<1>13. CASE CoordinatorRelease(w)
  <2>1. Edge("x_release", "fail") /\ Edge("x_release", "x_release")
    BY Zenon DEF Edge
  <2>2. /\ At(w, "x_release")
        /\ Return(w, "failed") \/ EndCycle(w) \/ ReleaseThen(w, "raise", "payment_pre_submission_failed")
    BY <1>13, Zenon DEF CoordinatorRelease
  <2> QED
    BY <1>1, <1>3, <1>4, <1>5, <2>1, <2>2, EndFlows, PipelineAssumption, Zenon
<1>14. CASE Approve(w)
  <2>1. Edge("approve", "settle") /\ Edge("approve", "x_release")
    BY Zenon DEF Edge
  <2> QED
    BY <1>2, <1>4, <1>6, <1>14, <2>1, PipelineAssumption, Zenon DEF Approve
<1>15. CASE SendSettle(w)
  <2>1. Edge("settle", "wait")
    BY Zenon DEF Edge
  <2> QED
    BY <1>2, <1>6, <1>15, <2>1, Zenon DEF SendSettle
<1>16. CASE RecordSubmission(w)
  <2>1. Edge("record", "submit") /\ Edge("record", "mark")
    BY Zenon DEF Edge
  <2> QED
    BY <1>2, <1>3, <1>5, <1>6, <1>16, <2>1, Zenon DEF RecordSubmission
<1>17. CASE SubmitReservation(w)
  <2>1. Edge("submit", "mark")
    BY Zenon DEF Edge
  <2> QED
    BY <1>3, <1>5, <1>17, <2>1, Zenon DEF SubmitReservation
<1>18. CASE FailSettlement(w)
  <2>1. Edge("fail", "mark") /\ "mark" \in Pcs
    BY Zenon DEF Edge, Pcs
  <2>2. proc[w].pc = "fail" => proc[w].result \in Outcomes
    BY Zenon DEF Leases, Leased, Between
  <2> QED
    BY <1>1, <1>18, <2>1, <2>2, EndFlows, GotoFlows, Zenon DEF FailSettlement, At
<1>19. CASE HandlerRelease(w)
  <2>1. Edge("h_release", "h_mark")
    BY Zenon DEF Edge
  <2> QED
    BY <1>1, <1>2, <1>6, <1>19, <2>1, EndFlows, Zenon DEF HandlerRelease
<1>20. CASE Timeout(w)
  <2>1. Edge("wait", "mark")
    BY Zenon DEF Edge
  <2> QED
    BY <1>3, <1>5, <1>20, <2>1, Zenon DEF Timeout
<1> QED
  BY <1>7, <1>8, <1>9, <1>10, <1>11, <1>12, <1>13, <1>14, <1>15, <1>16, <1>17, <1>18, <1>19,
       <1>20, Zenon

\* The answers of the facilitator.
LEMMA RelayFlows ==
    ASSUME PipelineInv, NEW w \in Workers, NEW i \in Intents, RelayStep(w, i)
    PROVE  \/ proc' = proc /\ ~Waiting(w, i)
           \/ /\ Flow(w) /\ Waiting(w, i) /\ proc'[w].intent = i
              /\ proc'[w].pc \in {"record", "x_release", "mark"}
<1>1. w \in Procs /\ w \notin Callers
  BY PipelineAssumption, Zenon
<1>2. Edge("wait", "record") /\ Edge("wait", "x_release") /\ Edge("wait", "mark")
  BY Zenon DEF Edge, Preparing, Fenced, Executing, Recovering, Unsent, Funded
<1>3. CASE ~Waiting(w, i)
  BY <1>3, Zenon DEF RelayStep, RelayBroadcast, RelayRefuse, RelayDrop
<1>4. CASE Waiting(w, i)
  <2>1. proc[w].pc = "wait" /\ proc[w].intent = i
    BY <1>4, Zenon DEF Waiting, At
  <2>2. CASE RelayRefuse(w, i)
    <3>1. "failed" \in Results /\ "facilitator_rejected" \in Reasons
      BY PipelineAssumption, Zenon DEF Results
    <3> QED
      BY <1>1, <1>2, <1>4, <2>1, <2>2, <3>1, ReleaseFlows, Zenon DEF RelayRefuse
  <2>3. CASE RelayDrop(w, i)
    <3>1. "unknown" \in Outcomes /\ AfterExecute("unknown") = "mark"
      BY Zenon DEF Outcomes, AfterExecute
    <3> QED
      BY <1>1, <1>2, <1>4, <2>1, <2>3, <3>1, ReturnFlows, Zenon DEF RelayDrop
  <2>4. ASSUME NEW t \in Txs, RelayBroadcast(w, i, t)
        PROVE  Flow(w) /\ proc'[w].intent = i /\ proc'[w].pc = "record"
    <3>1. /\ \A q \in Procs \ {w} : proc'[q] = proc[q]
          /\ proc'[w] = WithPc(WithTx(proc[w], t), "record")
      BY <1>1, <1>4, <2>4, Become_, Zenon DEF RelayBroadcast
    <3>2. WithTx(proc[w], t) \in LocalState /\ WithTx(proc[w], t).intent = i
      BY <1>1, <2>1, ProcHand, RowUpdates, Zenon DEF PipelineInv
    <3>3. proc'[w].pc = "record" /\ proc'[w].intent = i
      BY <3>1, <3>2, Zenon DEF WithPc, LocalState
    <3> QED
      BY <1>2, <2>1, <3>1, <3>3, Zenon DEF Flow
  <2> QED
    BY <1>4, <2>2, <2>3, <2>4, Zenon DEF RelayStep
<1> QED
  BY <1>3, <1>4, Zenon

-----------------------------------------------------------------------------
(* The leases *)

\* What the deal of a worker says of it, in both states.
LEMMA WorkerHand ==
    ASSUME PipelineInv, LeaseInv, NEW w \in Workers
    PROVE  /\ w \in Procs /\ w # NoWorker /\ proc[w].pc \in Pcs
           /\ proc[w].pc \notin Between =>
                 proc[w].intent \in Intents /\ Leased(w, proc[w], attempt[proc[w].intent])
BY PipelineAssumption, FenceAssumption, ProcHand, Zenon DEF LeaseInv, Leases, PipelineInv, InHand,
     Knows

\* Nothing that was recorded is pending again.
LEMMA PendingShrinks ==
    ASSUME PipelineInv', RowsKept, ArenaInv,
           \A i \in Intents : attempt'[i].status \in {"submitting", "unknown"} =>
                                 attempt[i].status \in {"submitting", "unknown"}
    PROVE  Pending' \subseteq Pending
<1> SUFFICES ASSUME NEW i \in Pending' PROVE i \in Pending
  BY Zenon
<1>1. /\ i \in Intents /\ submission'[i] = NoSubmission
      /\ attempt[i].status \in {"submitting", "unknown"}
  BY Zenon DEF Pending
<1>2. submission[i] = NoSubmission
  <2>1. submission[i].tx = NoTx => submission[i] = NoSubmission
    BY <1>1, Zenon DEF ArenaInv, Started
  <2>2. submission[i].tx # NoTx => submission'[i] = submission[i]
    BY <1>1, Zenon DEF RowsKept
  <2> QED
    BY <1>1, <2>1, <2>2, Zenon
<1> QED
  BY <1>1, <1>2, Zenon DEF Pending

\* A process moves along its control flow and changes no lease.
LEMMA LeasesFlow ==
    ASSUME PipelineInv, LeaseInv, attempt' = attempt, NEW w \in Workers, Flow(w),
           \/ proc[w].pc \notin {"claim", "mark_submitting", "h_mark"}
           \/ proc'[w].pc \in Between \cup {"h_fence", "defer"},
           proc'[w].pc \in {"h_fence", "defer"} => proc[w].pc \in Preparing,
           proc'[w].pc = "r_submit" => attempt[proc'[w].intent].status \notin Before
    PROVE  Leases'
<1>3. \A v \in Workers \ {w} : proc'[v] = proc[v]
  BY PipelineAssumption, Zenon DEF Flow
<1>4. proc[w].pc \notin Between => proc[w].intent \in Intents /\ Leased(w, proc[w], attempt[proc[w].intent])
  BY WorkerHand, Zenon
<1>5. proc'[w].pc \notin Between => Leased(w, proc'[w], attempt[proc'[w].intent])
  <2>1. CASE proc'[w].pc \in Fresh
    BY <2>1, Zenon DEF Leased, Fresh, Between, Preparing, Executing, Recovering
  <2>2. CASE proc'[w].pc \notin Fresh
    <3>1. proc'[w].intent = proc[w].intent /\ Edge(proc[w].pc, proc'[w].pc)
      BY <2>2, Zenon DEF Flow
    <3>2. proc'[w].pc \in Preparing => proc[w].pc \in Preparing
      BY <2>2, <3>1, Zenon DEF Edge, Fresh
    <3>3. proc'[w].pc \in Executing => proc[w].pc \in Executing
      BY <2>2, <3>1, Zenon DEF Edge, Fresh, Executing
    <3>4. proc'[w].pc # "h_fail"
      BY <2>2, <3>1, Zenon DEF Edge, Fresh
    <3>5. proc'[w].pc \in Recovering => proc[w].pc \in Recovering
      BY <2>2, <3>1, Zenon DEF Edge, Fresh
    <3>6. proc'[w].pc \in {"fail", "mark"} => proc'[w].result \in Outcomes
      BY Zenon DEF Flow
    <3>7. proc[w].pc \in Preparing \cup Executing \cup Recovering => proc[w].pc \notin Between
      BY Zenon DEF Preparing, Executing, Recovering, Between
    <3> QED
      BY <1>4, <3>1, <3>2, <3>3, <3>4, <3>5, <3>6, <3>7, Zenon DEF Leased
  <2> QED
    BY <2>1, <2>2, Zenon
<1> QED
  BY <1>3, <1>5, Zenon DEF Leases, LeaseInv

\* A step of worker w that changes no lease and no fence.
LEMMA LeaseQuiet ==
    ASSUME PipelineInv, PipelineInv', LeaseInv, LeaseTypeOK', UNCHANGED fenceVars, RowsKept,
           NEW w \in Workers, Flow(w),
           \/ proc[w].pc \notin {"claim", "fence", "sign", "mark_submitting", "h_mark"}
           \/ proc'[w].pc \in Between \cup {"h_fence", "defer"},
           proc'[w].pc \in {"h_fence", "defer"} => proc[w].pc \in Preparing,
           proc'[w].pc = "r_submit" => attempt[proc'[w].intent].status \notin Before
    PROVE  LeaseInv'
<1>1. attempt' = attempt /\ fence' = fence
  BY Zenon DEF fenceVars
<1>2. Pending' \subseteq Pending
  BY <1>1, PendingShrinks, Zenon DEF PipelineInv
<1>3. \A v \in Workers \ {w} : proc'[v] = proc[v]
  BY PipelineAssumption, Zenon DEF Flow
<1>6. Leases'
  BY <1>1, LeasesFlow, Zenon
<1>7. FenceGuards'
  <2>1. proc'[w].pc \notin Fenced
    BY Zenon DEF Flow, Edge, Fenced, Between
  <2> QED
    BY <1>1, <1>2, <1>3, <2>1, Zenon DEF FenceGuards, LeaseInv
<1>8. OnePending'
  BY <1>2, Zenon DEF OnePending, LeaseInv
<1> QED
  BY <1>6, <1>7, <1>8, Zenon DEF LeaseInv

\* A step that moves no worker, and no lease or fence.
LEMMA LeaseStill ==
    ASSUME PipelineInv, PipelineInv', LeaseInv, LeaseTypeOK', UNCHANGED fenceVars, RowsKept,
           \A w \in Workers : proc'[w] = proc[w]
    PROVE  LeaseInv'
<1>1. attempt' = attempt /\ fence' = fence
  BY Zenon DEF fenceVars
<1>2. Pending' \subseteq Pending
  BY <1>1, PendingShrinks, Zenon DEF PipelineInv
<1> QED
  BY <1>1, <1>2, Zenon DEF LeaseInv, Leases, FenceGuards, OnePending

\* Worker w changes the attempt row of its deal, which is its own or free.
LEMMA LeaseMove ==
    ASSUME PipelineInv, PipelineInv', LeaseInv, fence' = fence, relay' = relay,
           submission' = submission,
           NEW w \in Workers, Flow(w), NEW i \in Intents, NEW a \in AttemptState,
           attempt' = [attempt EXCEPT ![i] = a],
           attempt[i].owner = w \/ CanClaimAttempt(i),
           attempt[i].status \notin Before => a.status \notin Before,
           a.status \in Outcomes => a.owner = NoWorker,
           a.status \in {"submitting", "unknown"} =>
              attempt[i].status = "submitting" \/ proc[w].pc \in Fenced,
           proc'[w].pc \notin Between => proc'[w].intent = i /\ Leased(w, proc'[w], a),
           proc'[w].pc \in Fenced => proc[w].pc \in Fenced /\ proc'[w].intent = proc[w].intent /\ a.status \in Before
    PROVE  LeaseInv'
<1>1. /\ attempt'[i] = a /\ \A j \in Intents \ {i} : attempt'[j] = attempt[j]
      /\ attempt' \in [Intents -> AttemptState]
  BY Zenon DEF LeaseInv, LeaseTypeOK
<1>2. \A v \in Workers \ {w} : proc'[v] = proc[v]
  BY PipelineAssumption, Zenon DEF Flow
<1>3. LeaseTypeOK'
  BY <1>1, Zenon DEF LeaseInv, LeaseTypeOK
<1>4. ASSUME NEW v \in Workers \ {w}, proc[v].pc \notin Between
      PROVE  Leased(v, proc[v], attempt'[proc[v].intent])
  <2>1. proc[v].intent \in Intents /\ Leased(v, proc[v], attempt[proc[v].intent]) /\ v # NoWorker /\ w # NoWorker
    BY <1>4, WorkerHand, Zenon
  <2>2. CASE proc[v].intent # i
    BY <1>1, <2>1, <2>2, Zenon
  <2>3. CASE proc[v].intent = i
    <3>1. proc[v].pc \notin Preparing
      BY <2>1, <2>3, Zenon DEF Leased, CanClaimAttempt
    <3>2. proc[v].pc \notin Executing
      BY <2>1, <2>3, Zenon DEF Leased, CanClaimAttempt
    <3>3. proc[v].pc # "h_fail"
      BY <2>1, <2>3, Zenon DEF Leased, CanClaimAttempt, LeaseInv, Leases, Outcomes
    <3>4. proc[v].pc \in Recovering => a.status \notin Before
      BY <2>1, <2>3, Zenon DEF Leased
    <3>5. proc[v].pc \notin {"fail", "mark"}
      BY <3>2, Zenon DEF Executing
    <3> QED
      BY <1>1, <2>3, <3>1, <3>2, <3>3, <3>4, <3>5, Zenon DEF Leased
  <2> QED
    BY <2>2, <2>3, Zenon
<1>5. Leases'
  <2>1. \A j \in Intents : attempt'[j].status \in Outcomes => attempt'[j].owner = NoWorker
    BY <1>1, Zenon DEF LeaseInv, Leases
  <2>2. \A v \in Workers : proc'[v].pc \notin Between => Leased(v, proc'[v], attempt'[proc'[v].intent])
    BY <1>1, <1>2, <1>4
  <2> QED
    BY <2>1, <2>2, Zenon DEF Leases
<1>6. Pending' \subseteq Pending \cup {i}
  BY <1>1, Zenon DEF Pending
<1>7. i \in Pending' => i \in Pending \/ proc[w].pc \in Fenced
  BY <1>1, Zenon DEF Pending
<1>8. FenceGuards'
  <2>1. ASSUME NEW v \in Workers \ {w}, proc[v].pc \in Fenced
        PROVE  fence' = FenceOf(proc'[v].intent, v, FALSE) /\ Pending' = {}
    <3>1. fence = FenceOf(proc[v].intent, v, FALSE) /\ Pending = {}
      BY <2>1, Zenon DEF LeaseInv, FenceGuards
    <3>2. proc[w].pc \notin Fenced
      BY <2>1, <3>1, Zenon DEF LeaseInv, FenceGuards, FenceOf
    <3> QED
      BY <1>2, <1>6, <1>7, <3>1, <3>2, Zenon
  <2>2. ASSUME proc'[w].pc \in Fenced
        PROVE  fence' = FenceOf(proc'[w].intent, w, FALSE) /\ Pending' = {}
    <3>1. fence = FenceOf(proc[w].intent, w, FALSE) /\ Pending = {}
      BY <2>2, Zenon DEF LeaseInv, FenceGuards
    <3>2. i \notin Pending'
      BY <1>1, <2>2, Zenon DEF Pending, Before
    <3> QED
      BY <1>6, <2>2, <3>1, <3>2, Zenon
  <2> QED
    BY <1>2, <2>1, <2>2, Zenon DEF FenceGuards
<1>9. OnePending'
  <2>1. proc[w].pc \in Fenced => Pending = {}
    BY Zenon DEF LeaseInv, FenceGuards
  <2> QED
    BY <1>6, <1>7, <2>1, Zenon DEF LeaseInv, OnePending
<1> QED
  BY <1>3, <1>5, <1>8, <1>9, Zenon DEF LeaseInv

\* Worker w changes the fence.
LEMMA FenceMove ==
    ASSUME PipelineInv, PipelineInv', LeaseInv, attempt' = attempt, relay' = relay,
           submission' = submission, fence' \in FenceState,
           NEW w \in Workers, Flow(w),
           proc[w].pc \notin {"claim", "mark_submitting", "h_mark"},
           proc'[w].pc \notin {"h_fence", "defer", "r_submit"},
           \A v \in Workers \ {w} : proc[v].pc \in Fenced => fence' = fence,
           proc'[w].pc \in Fenced => fence' = FenceOf(proc'[w].intent, w, FALSE) /\ Pending = {}
    PROVE  LeaseInv'
<1>1. Leases'
  BY LeasesFlow, Zenon
<1>2. LeaseTypeOK'
  BY Zenon DEF LeaseInv, LeaseTypeOK
<1>3. Pending' = Pending
  BY Zenon DEF Pending
<1>4. \A v \in Workers \ {w} : proc'[v] = proc[v]
  BY PipelineAssumption, Zenon DEF Flow
<1>5. FenceGuards'
  BY <1>3, <1>4, Zenon DEF LeaseInv, FenceGuards
<1> QED
  BY <1>1, <1>2, <1>3, <1>5, Zenon DEF LeaseInv, OnePending

\* Where the moves of a process lead.
LEMMA GotoAt ==
    ASSUME PipelineInv, NEW p \in Procs, NEW b \in Pcs, Goto(p, b)
    PROVE  proc'[p].pc = b /\ proc'[p].intent = proc[p].intent /\ proc'[p].result = proc[p].result
<1>1. proc'[p] = WithPc(proc[p], b)
  BY Become_, Zenon DEF Goto
<1>2. proc[p] \in LocalState
  BY ProcHand, Zenon DEF PipelineInv
<1> QED
  BY <1>1, <1>2, Zenon DEF WithPc, LocalState

LEMMA BackAt ==
    ASSUME PipelineInv, NEW p \in Procs, EndCycle(p) \/ NextTarget(p) \/ \E S : Recover(p, S)
    PROVE  proc'[p].pc \in Between
<1>1. EndCycle(p) => proc'[p].pc = "idle"
  BY Become_ DEF EndCycle, Idle, Local
<1> QED
  BY <1>1, NextFlows, QueueFlows, Zenon DEF Between

LEMMA AttemptSteps ==
    ASSUME PipelineInv, PipelineInv', LeaseInv, LeaseTypeOK', NEW w \in Workers,
           \/ ClaimAttempt(w) \/ Defer(w) \/ Sign(w) \/ MarkSubmitting(w) \/ MarkResult(w)
           \/ HandlerMark(w)
    PROVE  LeaseInv'
<1> DEFINE i == proc[w].intent
<1>1. w \in Procs /\ w # NoWorker /\ Flow(w)
  BY WorkerHand, LeaseFlows, Zenon
<1>2. submission' = submission /\ relay' = relay /\ RowsKept
  BY RowsStay, Zenon DEF ClaimAttempt, Defer, Sign, MarkSubmitting, MarkResult, HandlerMark,
       FenceOnly, arenaVars, intentVars, dealVars, chainVars
<1>3. proc[w].pc \in {"claim", "defer", "sign", "mark_submitting", "mark", "h_mark"}
  BY Zenon DEF ClaimAttempt, Defer, Sign, MarkSubmitting, MarkResult, HandlerMark, At
<1>4. i \in Intents /\ Leased(w, proc[w], attempt[i]) /\ attempt[i] \in AttemptState
  BY <1>3, WorkerHand, Zenon DEF Between, LeaseInv, LeaseTypeOK
<1>5. {"fence", "h_release", "mark_submitting", "h_fence", "x_reserve", "unfence", "h_fail"} \subseteq Pcs
  BY Zenon DEF Pcs
<1>6. ASSUME UNCHANGED fenceVars, proc'[w].pc \in Between PROVE LeaseInv'
  BY <1>1, <1>2, <1>6, LeaseQuiet, Zenon DEF Between
<1>7. CASE ClaimAttempt(w)
  <2>1. CASE ~CanClaimAttempt(i)
    BY <1>1, <1>6, <1>7, <2>1, BackAt, Zenon DEF ClaimAttempt, claim_attempt
  <2>2. CASE CanClaimAttempt(i)
    <3> DEFINE s == IF attempt[i].status = "none" THEN "reserved" ELSE attempt[i].status
               a == Attempt(s, w, FALSE)
    <3>1. attempt' = [attempt EXCEPT ![i] = a] /\ fence' = fence /\ Goto(w, "fence")
      BY <1>7, <2>2, Zenon DEF ClaimAttempt, claim_attempt
    <3>2. s \in {"reserved", "signed"}
      BY <2>2, Zenon DEF CanClaimAttempt
    <3>3. a \in AttemptState /\ a.status = s /\ a.owner = w /\ a.expired = FALSE
      BY <3>2, Zenon DEF Attempt, AttemptState, AttemptStatus
    <3>4. proc'[w].pc = "fence" /\ proc'[w].intent = i
      BY <1>1, <1>5, <3>1, GotoAt, Zenon
    <3>5. attempt[i].status \in Before
      BY <2>2, Zenon DEF CanClaimAttempt, Before
    <3>6. Leased(w, proc'[w], a)
      BY <3>2, <3>3, <3>4, Zenon DEF Leased, Executing, Recovering
    <3> HIDE DEF a, s
    <3> QED
      BY <1>1, <1>2, <1>4, <2>2, <3>1, <3>2, <3>3, <3>4, <3>5, <3>6, LeaseMove, Zenon DEF Outcomes, Fenced
  <2> QED
    BY <2>1, <2>2, Zenon
<1>8. ASSUME proc[w].pc \in Preparing
      PROVE  attempt[i].owner = w /\ attempt[i].status \in {"reserved", "signed"} /\ attempt[i].expired = FALSE
  BY <1>4, <1>8, Zenon DEF Leased, AttemptState
<1>9. CASE Defer(w)
  <2>1. attempt[i].owner = w /\ attempt[i].status \in {"reserved", "signed"}
    BY <1>8, <1>9, Zenon DEF Defer, At, Preparing
  <2> DEFINE a == Attempt(attempt[i].status, attempt[i].owner, TRUE)
  <2>2. attempt' = [attempt EXCEPT ![i] = a] /\ fence' = fence /\ NextTarget(w)
    BY <1>9, <2>1, Zenon DEF Defer, defer_attempt, CanDefer, Owns
  <2>3. a \in AttemptState /\ a.status = attempt[i].status /\ a.owner = w
    BY <2>1, Zenon DEF Attempt, AttemptState, AttemptStatus
  <2>4. proc'[w].pc \in Between
    BY <1>1, <2>2, BackAt, Zenon
  <2> HIDE DEF a
  <2> QED
    BY <1>1, <1>2, <1>4, <2>1, <2>2, <2>3, <2>4, LeaseMove, Zenon DEF Outcomes, Fenced, Between
<1>10. CASE Sign(w) \/ MarkSubmitting(w)
  <2>1. /\ attempt[i].owner = w /\ attempt[i].status \in {"reserved", "signed"} /\ attempt[i].expired = FALSE
        /\ proc[w].pc \in Fenced
    BY <1>8, <1>10, Zenon DEF Sign, MarkSubmitting, At, Preparing, Fenced
  <2>2. CASE Goto(w, "h_fence") /\ UNCHANGED fenceVars
    <3>1. proc'[w].pc = "h_fence" /\ proc[w].pc \in Preparing
      BY <1>1, <1>5, <2>1, <2>2, GotoAt, Zenon DEF Fenced, Preparing
    <3> QED
      BY <1>1, <1>2, <2>2, <3>1, LeaseQuiet, Zenon
  <2>3. ASSUME NEW s \in {"signed", "submitting"}, mark_attempt(i, w, s),
               Goto(w, IF s = "signed" THEN "mark_submitting" ELSE "x_reserve")
        PROVE  LeaseInv'
    <3> DEFINE a == Attempt(s, attempt[i].owner, attempt[i].expired)
    <3>1. attempt' = [attempt EXCEPT ![i] = a] /\ fence' = fence
      BY <2>3, Zenon DEF mark_attempt
    <3>2. a \in AttemptState /\ a.status = s /\ a.owner = w /\ a.expired = FALSE
      BY <2>1, Zenon DEF Attempt, AttemptState, AttemptStatus
    <3>3. /\ proc'[w].pc = IF s = "signed" THEN "mark_submitting" ELSE "x_reserve"
          /\ proc'[w].intent = i
      BY <1>1, <1>5, <2>3, GotoAt, Zenon
    <3>4. Leased(w, proc'[w], a)
      BY <2>3, <3>2, <3>3, Zenon DEF Leased, Preparing, Executing, Recovering
    <3> HIDE DEF a
    <3>5. s \notin Outcomes /\ (s = "signed" => s \in Before) /\ attempt[i].status \in Before
      BY <2>1, <2>3, Zenon DEF Outcomes, Before
    <3>6. proc'[w].pc \in Fenced => s = "signed"
      BY <2>3, <3>3, Zenon DEF Fenced
    <3> QED
      BY <1>1, <1>2, <1>4, <2>1, <3>1, <3>2, <3>3, <3>4, <3>5, <3>6, LeaseMove, Zenon
  <2> QED
    BY <1>10, <2>2, <2>3, Zenon DEF Sign, MarkSubmitting
<1>11. CASE MarkResult(w)
  <2>1. attempt[i].owner = w /\ attempt[i].status = "submitting" /\ proc[w].result \in Outcomes
    BY <1>4, <1>11, Zenon DEF MarkResult, At, Leased, Executing
  <2> DEFINE a == Attempt(proc[w].result, NoWorker, FALSE)
  <2>2. attempt' = [attempt EXCEPT ![i] = a] /\ fence' = fence /\ (NextTarget(w) \/ Goto(w, "unfence"))
    BY <1>11, <2>1, Zenon DEF MarkResult, mark_attempt, Owns, Outcomes
  <2>3. a \in AttemptState /\ a.status = proc[w].result /\ a.owner = NoWorker
    BY <2>1, Zenon DEF Attempt, AttemptState, AttemptStatus, Outcomes
  <2>4. proc'[w].pc \in Between \/ (proc'[w].pc = "unfence" /\ proc'[w].intent = i)
    BY <1>1, <1>5, <2>2, BackAt, GotoAt, Zenon
  <2>5. proc'[w].pc = "unfence" => Leased(w, proc'[w], a)
    BY Zenon DEF Leased, Preparing, Executing, Recovering
  <2> HIDE DEF a
  <2>6. proc'[w].pc \notin Fenced /\ a.status \notin Before
    BY <2>1, <2>3, <2>4, Zenon DEF Fenced, Between, Before, Outcomes
  <2> QED
    BY <1>1, <1>2, <1>4, <2>1, <2>2, <2>3, <2>4, <2>5, <2>6, LeaseMove, Zenon
<1>12. CASE HandlerMark(w)
  <2>1. attempt[i].owner = w
    BY <1>8, <1>12, Zenon DEF HandlerMark, At, Preparing
  <2> DEFINE a == Attempt("failed", NoWorker, FALSE)
  <2>2. attempt' = [attempt EXCEPT ![i] = a] /\ fence' = fence /\ Goto(w, "h_fail")
    BY <1>12, <2>1, Zenon DEF HandlerMark, mark_attempt, Owns
  <2>3. a \in AttemptState /\ a.status = "failed" /\ a.owner = NoWorker
    BY Zenon DEF Attempt, AttemptState, AttemptStatus
  <2>4. proc'[w].pc = "h_fail" /\ proc'[w].intent = i
    BY <1>1, <1>5, <2>2, GotoAt, Zenon
  <2>5. Leased(w, proc'[w], a)
    BY <2>3, <2>4, Zenon DEF Leased, Preparing, Executing, Recovering
  <2> HIDE DEF a
  <2>6. proc'[w].pc \notin Fenced /\ a.status \notin Before
    BY <2>3, <2>4, Zenon DEF Fenced, Before
  <2> QED
    BY <1>1, <1>2, <1>4, <2>1, <2>2, <2>3, <2>4, <2>5, <2>6, LeaseMove, Zenon
<1> QED
  BY <1>7, <1>9, <1>10, <1>11, <1>12, Zenon

LEMMA FenceMoves ==
    ASSUME PipelineInv, PipelineInv', LeaseInv, LeaseTypeOK', NEW w \in Workers,
           \/ RecoverFence(w) \/ ClaimFence(w) \/ ReleaseFence(w) \/ HandlerFence(w)
    PROVE  LeaseInv'
<1> DEFINE i == proc[w].intent
<1>1. w \in Procs /\ w # NoWorker /\ Flow(w)
  BY WorkerHand, LeaseFlows, Zenon
<1>2. submission' = submission /\ relay' = relay /\ RowsKept
  BY RowsStay, Zenon DEF RecoverFence, ClaimFence, ReleaseFence, HandlerFence, FenceOnly,
       arenaVars, intentVars, dealVars, chainVars
<1>3. proc[w].pc \in {"r_fence", "fence", "unfence", "h_fence"}
  BY Zenon DEF RecoverFence, ClaimFence, ReleaseFence, HandlerFence, At
<1>4. i \in Intents /\ Leased(w, proc[w], attempt[i]) /\ fence' \in FenceState
  BY <1>3, WorkerHand, Zenon DEF Between, LeaseTypeOK
<1>5. {"sign", "defer", "h_release"} \subseteq Pcs
  BY Zenon DEF Pcs
<1>6. ASSUME UNCHANGED fenceVars, proc'[w].pc \in Between PROVE LeaseInv'
  BY <1>1, <1>2, <1>6, LeaseQuiet, Zenon DEF Between
<1>7. \A v \in Workers : proc[v].pc \in Fenced =>
         /\ fence = FenceOf(proc[v].intent, v, FALSE)
         /\ fence.intent = proc[v].intent /\ fence.owner = v /\ fence.expired = FALSE
  BY DEF LeaseInv, FenceGuards, FenceOf
<1>8. CASE RecoverFence(w)
  <2>1. proc'[w].pc \in Between /\ attempt' = attempt
    BY <1>1, <1>8, BackAt, Zenon DEF RecoverFence, ClearFence
  <2>2. ASSUME NEW v \in Workers \ {w}, proc[v].pc \in Fenced PROVE fence' = fence
    <3>1. Leased(v, proc[v], attempt[proc[v].intent]) /\ proc[v].pc \in Preparing
      BY <2>2, WorkerHand, Zenon DEF Fenced, Preparing, Between
    <3>2. attempt[i].status \notin Before
      BY <1>4, <1>8, Zenon DEF RecoverFence, At, Leased, Recovering
    <3>3. proc[v].intent # i
      BY <3>1, <3>2, Zenon DEF Leased, Before
    <3> QED
      BY <1>7, <1>8, <2>2, <3>3, Zenon DEF RecoverFence, ClearFence
  <2> QED
    BY <1>1, <1>2, <1>3, <1>4, <2>1, <2>2, FenceMove, Zenon DEF Between, Fenced
<1>9. CASE ClaimFence(w)
  <2>1. CASE Goto(w, "defer") /\ UNCHANGED fenceVars
    <3>1. proc'[w].pc = "defer" /\ proc[w].pc \in Preparing
      BY <1>1, <1>5, <1>9, <2>1, GotoAt, Zenon DEF ClaimFence, At, Preparing
    <3> QED
      BY <1>1, <1>2, <2>1, <3>1, LeaseQuiet, Zenon
  <2>2. CASE claim_facilitator_fence(i, w, Recorded) /\ Goto(w, "sign")
    <3>1. attempt' = attempt /\ fence' = FenceOf(i, w, FALSE) /\ CanClaimFence(Recorded)
      BY <2>2, Zenon DEF claim_facilitator_fence
    <3>2. proc'[w].pc = "sign" /\ proc'[w].intent = i
      BY <1>1, <1>5, <2>2, GotoAt, Zenon
    <3>3. Pending = {}
      BY <3>1, Zenon DEF CanClaimFence, Unresolved, Recorded, Pending
    <3>4. \A v \in Workers : proc[v].pc \notin Fenced
      BY <1>7, <3>1, FenceAssumption DEF CanClaimFence, NoFence, FenceOf
    <3> QED
      BY <1>1, <1>2, <1>3, <1>4, <3>1, <3>2, <3>3, <3>4, FenceMove, Zenon
  <2> QED
    BY <1>9, <2>1, <2>2, Zenon DEF ClaimFence
<1>10. CASE ReleaseFence(w) \/ HandlerFence(w)
  <2>1. CASE EndCycle(w) /\ UNCHANGED fenceVars
    BY <1>1, <1>6, <2>1, BackAt, Zenon
  <2>2. CASE release_facilitator_fence(i, w) /\ (NextTarget(w) \/ Goto(w, "h_release"))
    <3>1. attempt' = attempt /\ fence.owner = w
      BY <2>2, Zenon DEF release_facilitator_fence, HoldsFence
    <3>2. proc'[w].pc \in Between \cup {"h_release"}
      BY <1>1, <1>5, <2>2, BackAt, GotoAt, Zenon
    <3>3. \A v \in Workers \ {w} : proc[v].pc \notin Fenced
      BY <1>7, <3>1, Zenon
    <3> QED
      BY <1>1, <1>2, <1>3, <1>4, <3>1, <3>2, <3>3, FenceMove, Zenon DEF Between, Fenced
  <2> QED
    BY <1>10, <2>1, <2>2, Zenon DEF ReleaseFence, HandlerFence
<1> QED
  BY <1>8, <1>9, <1>10, Zenon

\* A lease that nobody needs any more expires.
LEMMA ExpirySteps ==
    ASSUME "stall" \notin Faults, PipelineInv, PipelineInv', LeaseInv, LeaseExpires
    PROVE  LeaseInv'
<1>1. proc' = proc /\ submission' = submission /\ relay' = relay
  BY Zenon DEF LeaseExpires, arenaVars, intentVars, dealVars, chainVars
<1>2. ASSUME NEW i \in Intents, attempt[i].status \in {"reserved", "signed"},
             proc[attempt[i].owner].intent # i, attempt[i].owner # NoWorker, ExpireAttempt(i)
      PROVE  LeaseInv'
  <2> DEFINE a == Attempt(attempt[i].status, attempt[i].owner, TRUE)
  <2>1. attempt' = [attempt EXCEPT ![i] = a] /\ fence' = fence /\ attempt[i] \in AttemptState
    BY <1>2, Zenon DEF ExpireAttempt, LeaseInv, LeaseTypeOK
  <2>2. a \in AttemptState /\ a.status = attempt[i].status /\ a.owner = attempt[i].owner
    BY <2>1, Zenon DEF Attempt, AttemptState
  <2> HIDE DEF a
  <2>3. /\ attempt'[i] = a /\ \A j \in Intents \ {i} : attempt'[j] = attempt[j]
        /\ attempt' \in [Intents -> AttemptState]
    BY <2>1, <2>2, Zenon DEF LeaseInv, LeaseTypeOK
  <2>4. ASSUME NEW v \in Workers, proc[v].pc \notin Between
        PROVE  Leased(v, proc[v], attempt'[proc[v].intent])
    <3>1. proc[v].intent \in Intents /\ Leased(v, proc[v], attempt[proc[v].intent])
      BY <2>4, WorkerHand, Zenon
    <3>2. proc[v].intent = i => proc[v].pc \notin Preparing
      BY <1>2, <3>1, Zenon DEF Leased
    <3> QED
      BY <2>2, <2>3, <3>1, <3>2, Zenon DEF Leased
  <2>5. Leases'
    <3>1. \A j \in Intents : attempt'[j].status \in Outcomes => attempt'[j].owner = NoWorker
      BY <2>2, <2>3, Zenon DEF LeaseInv, Leases
    <3> QED
      BY <1>1, <2>4, <3>1, Zenon DEF Leases
  <2>6. Pending' = Pending
    BY <1>1, <2>2, <2>3, Zenon DEF Pending
  <2> QED
    BY <1>1, <2>1, <2>3, <2>5, <2>6, Zenon DEF LeaseInv, LeaseTypeOK, FenceGuards, OnePending
<1>3. ASSUME fence # NoFence, proc[fence.owner].intent # fence.intent, ExpireFence
      PROVE  LeaseInv'
  <2>1. attempt' = attempt /\ fence' = FenceOf(fence.intent, fence.owner, TRUE) /\ fence \in FenceState
    BY <1>3, Zenon DEF ExpireFence, LeaseInv, LeaseTypeOK
  <2>2. fence' \in FenceState
    BY <2>1, Zenon DEF FenceState, FenceOf
  <2>3. \A v \in Workers : proc[v].pc \notin Fenced
    BY <1>3 DEF LeaseInv, FenceGuards, FenceOf
  <2>4. Pending' = Pending
    BY <1>1, <2>1, Zenon DEF Pending
  <2> QED
    BY <1>1, <2>1, <2>2, <2>3, <2>4, Zenon DEF LeaseInv, LeaseTypeOK, Leases, FenceGuards, OnePending
<1>4. \/ \E i \in Intents : /\ attempt[i].status \in {"reserved", "signed"}
                            /\ proc[attempt[i].owner].intent # i /\ attempt[i].owner # NoWorker
                            /\ ExpireAttempt(i)
      \/ fence # NoFence /\ proc[fence.owner].intent # fence.intent /\ ExpireFence
  BY Zenon DEF LeaseExpires, MayExpire, ExpireAttempt
<1> QED
  BY <1>2, <1>3, <1>4, Zenon

LEMMA LeaseTypesKept ==
    ASSUME LeaseInv, UNCHANGED fenceVars, relay' \in SUBSET (Procs \X Intents) PROVE LeaseTypeOK'
BY Zenon DEF LeaseInv, LeaseTypeOK, fenceVars

\* The steps that change a lease or the fence leave rows of their types.
LEMMA FenceTypes ==
    ASSUME PipelineInv, LeaseInv, NEW w \in Workers,
           \/ RecoverFence(w) \/ ClaimAttempt(w) \/ ClaimFence(w) \/ Defer(w) \/ Sign(w)
           \/ MarkSubmitting(w) \/ MarkResult(w) \/ ReleaseFence(w)
           \/ HandlerFence(w) \/ HandlerMark(w)
    PROVE  LeaseTypeOK'
<1> DEFINE i == proc[w].intent
<1>1. w \in Procs /\ relay' = relay
  BY WorkerHand, Zenon DEF RecoverFence, ClaimAttempt, ClaimFence, Defer, Sign, MarkSubmitting,
       MarkResult, ReleaseFence, HandlerFence, HandlerMark, FenceOnly, chainVars
<1>2. proc[w].pc \notin Between
  BY Zenon DEF RecoverFence, ClaimAttempt, ClaimFence, Defer, Sign, MarkSubmitting, MarkResult,
       ReleaseFence, HandlerFence, HandlerMark, At, Between
<1>3. i \in Intents /\ Leased(w, proc[w], attempt[i]) /\ attempt[i] \in AttemptState
  BY <1>2, WorkerHand, Zenon DEF LeaseInv, LeaseTypeOK
<1>4. /\ attempt \in [Intents -> AttemptState] /\ fence \in FenceState
      /\ relay' \in SUBSET (Procs \X Intents)
  BY <1>1, Zenon DEF LeaseInv, LeaseTypeOK
<1>5. ASSUME NEW a \in AttemptState, attempt' = [attempt EXCEPT ![i] = a], fence' = fence
      PROVE  LeaseTypeOK'
  BY <1>3, <1>4, <1>5, Zenon DEF LeaseTypeOK
<1>6. ASSUME attempt' = attempt, fence' \in FenceState PROVE LeaseTypeOK'
  BY <1>4, <1>6, Zenon DEF LeaseTypeOK
<1>7. \A s \in AttemptStatus, o \in Workers \cup {NoWorker}, x \in BOOLEAN : Attempt(s, o, x) \in AttemptState
  BY Zenon DEF Attempt, AttemptState
<1>8. /\ attempt[i].status \in AttemptStatus /\ attempt[i].owner \in Workers \cup {NoWorker}
      /\ attempt[i].expired \in BOOLEAN
  BY <1>3, Zenon DEF AttemptState
<1>9. ASSUME NEW s \in {"signed", "submitting", "submitted", "failed", "unknown"}, mark_attempt(i, w, s)
      PROVE  LeaseTypeOK'
  <2>1. s \in AttemptStatus
    BY Zenon DEF AttemptStatus
  <2>2. PICK a \in {Attempt(s, NoWorker, FALSE), Attempt(s, attempt[i].owner, attempt[i].expired)} :
             attempt' = [attempt EXCEPT ![i] = a] /\ fence' = fence
    BY <1>9, Zenon DEF mark_attempt
  <2>3. a \in AttemptState
    BY <1>7, <1>8, <2>1, <2>2, Zenon
  <2> QED
    BY <1>5, <2>2, <2>3, Zenon
<1>10. CASE UNCHANGED fenceVars
  BY <1>4, <1>6, <1>10, Zenon DEF fenceVars
<1>11. CASE ClaimAttempt(w)
  <2>1. CASE claim_attempt(i, w)
    <3>1. PICK s \in {"reserved", attempt[i].status} :
             attempt' = [attempt EXCEPT ![i] = Attempt(s, w, FALSE)] /\ fence' = fence
      BY <2>1, Zenon DEF claim_attempt
    <3>2. Attempt(s, w, FALSE) \in AttemptState
      BY <1>7, <1>8, <3>1, Zenon DEF AttemptStatus
    <3> QED
      BY <1>5, <3>1, <3>2, Zenon
  <2> QED
    BY <1>10, <1>11, <2>1, Zenon DEF ClaimAttempt
<1>12. CASE Defer(w)
  BY <1>5, <1>7, <1>8, <1>10, <1>12, Zenon DEF Defer, defer_attempt
<1>13. CASE Sign(w) \/ MarkSubmitting(w) \/ HandlerMark(w)
  BY <1>9, <1>10, <1>13, Zenon DEF Sign, MarkSubmitting, HandlerMark
<1>14. CASE MarkResult(w)
  <2>1. proc[w].result \in Outcomes
    BY <1>3, <1>14, Zenon DEF MarkResult, At, Leased
  <2> QED
    BY <1>9, <1>10, <1>14, <2>1, Zenon DEF MarkResult, Outcomes
<1>15. CASE RecoverFence(w) \/ ClaimFence(w) \/ ReleaseFence(w) \/ HandlerFence(w)
  <2>1. NoFence \in FenceState /\ FenceOf(i, w, FALSE) \in FenceState
    BY <1>3, Zenon DEF NoFence, FenceOf, FenceState
  <2> QED
    BY <1>4, <1>6, <1>10, <1>15, <2>1, Zenon DEF RecoverFence, ClearFence, ClaimFence,
         claim_facilitator_fence, ReleaseFence, HandlerFence, release_facilitator_fence
<1> QED
  BY <1>11, <1>12, <1>13, <1>14, <1>15, Zenon

\* The steps of a worker that touch no lease and no fence.
LEMMA QuietSteps ==
    ASSUME PipelineInv, PipelineInv', LeaseInv, RowsKept, NEW w \in Workers,
           \/ StartCycle(w) \/ FindTransaction(w) \/ ScanTargets(w) \/ ReadMandate(w)
           \/ RecoverSubmit(w) \/ RecoverRecord(w) \/ FailUnmandated(w) \/ Reconcile(w)
           \/ ReserveBudget(w) \/ CoordinatorStep(w)
           \/ FailSettlement(w) \/ HandlerRelease(w) \/ HandlerFail(w) \/ Timeout(w)
           \/ EndCycle(w) /\ UNCHANGED fenceVars /\ UNCHANGED relay
    PROVE  LeaseInv'
<1>1. w \in Procs
  BY PipelineAssumption, Zenon
<1>2. UNCHANGED fenceVars
  BY Zenon DEF StartCycle, FindTransaction, ScanTargets, ReadMandate, RecoverSubmit, RecoverRecord,
       FailUnmandated, Reconcile, ReserveBudget, CoordinatorStep, CoordinatorReserve, Verify,
       CoordinatorRelease, Approve, SendSettle, RecordSubmission, SubmitReservation, FailSettlement,
       HandlerRelease, HandlerFail, Timeout, LocalOnly, LedgerOnly, ArenaOnly, ChainOnly
<1>3. CASE StartCycle(w) \/ FindTransaction(w) \/ ScanTargets(w) \/ ReadMandate(w)
  <2>1. relay' = relay
    BY <1>3, Zenon DEF StartCycle, FindTransaction, ScanTargets, ReadMandate, LocalOnly, chainVars
  <2>2. LeaseTypeOK'
    BY <1>2, <2>1, LeaseTypesKept, Zenon DEF LeaseInv, LeaseTypeOK
  <2>3. /\ Flow(w) /\ proc[w].pc \in Between /\ proc'[w].pc \in Fresh
        /\ proc'[w].pc = "r_submit" => attempt[proc'[w].intent].status \notin Before
    BY <1>1, <1>3, StartFlows, Zenon DEF Before
  <2>4. /\ proc[w].pc \notin {"claim", "fence", "sign", "mark_submitting", "h_mark"}
        /\ proc'[w].pc \notin {"h_fence", "defer"}
    BY <2>3, Zenon DEF Between, Fresh
  <2> QED
    BY <1>2, <2>2, <2>3, <2>4, LeaseQuiet, Zenon
<1>4. CASE EndCycle(w) /\ UNCHANGED relay
  <2>1. LeaseTypeOK'
    BY <1>2, <1>4, LeaseTypesKept, Zenon DEF LeaseInv, LeaseTypeOK
  <2>2. Flow(w) /\ proc'[w].pc \in Between
    BY <1>1, <1>4, EndFlows, BackAt, Zenon
  <2> QED
    BY <1>2, <2>1, <2>2, LeaseQuiet, Zenon DEF Between
<1>5. CASE \/ RecoverSubmit(w) \/ RecoverRecord(w) \/ FailUnmandated(w) \/ Reconcile(w)
           \/ ReserveBudget(w) \/ CoordinatorStep(w)
           \/ FailSettlement(w) \/ HandlerRelease(w) \/ HandlerFail(w) \/ Timeout(w)
  <2>1. Flow(w)
    BY <1>5, CallFlows, Zenon DEF LeaseInv, CoordinatorStep
  <2>2. proc[w].pc \in {"r_submit", "r_record", "no_mandate", "queue", "reserve", "x_reserve",
                        "verify", "x_release", "approve", "settle", "record", "submit", "fail",
                        "h_release", "h_fail", "wait"}
    BY <1>5, Zenon DEF RecoverSubmit, RecoverRecord, FailUnmandated, Reconcile, ReserveBudget,
         CoordinatorStep, CoordinatorReserve, Verify, CoordinatorRelease, Approve, SendSettle,
         RecordSubmission, SubmitReservation, FailSettlement, HandlerRelease, HandlerFail, Timeout, At
  <2>3. /\ proc'[w].pc \in {"h_fence", "defer"} => proc[w].pc \in Preparing
        /\ proc'[w].pc # "r_submit"
    <3>1. "claim" # proc[w].pc /\ (proc'[w].pc \in Preparing => proc[w].pc \in Preparing)
      BY <2>1, <2>2, Zenon DEF Flow, Edge
    <3>2. proc'[w].pc # "r_submit"
      BY <2>1, <2>2, Zenon DEF Flow, Edge
    <3> QED
      BY <3>1, <3>2, Zenon DEF Preparing
  <2>4. relay' \in SUBSET (Procs \X Intents)
    <3>1. CASE SendSettle(w)
      <4>1. proc[w].intent \in Intents
        BY <3>1, WorkerHand, Zenon DEF SendSettle, At, Between
      <4> QED
        BY <1>1, <3>1, <4>1 DEF SendSettle, Send, LeaseInv, LeaseTypeOK
    <3>2. CASE ~SendSettle(w)
      BY <1>5, <3>2, Zenon DEF RecoverSubmit, RecoverRecord, FailUnmandated, Reconcile, ReserveBudget,
         CoordinatorStep, CoordinatorReserve, Verify, CoordinatorRelease, Approve,
         RecordSubmission, SubmitReservation, FailSettlement, HandlerRelease, HandlerFail, Timeout,
         LocalOnly, LedgerOnly, ArenaOnly, chainVars, LeaseInv, LeaseTypeOK
    <3> QED
      BY <3>1, <3>2, Zenon
  <2> QED
    BY <1>2, <2>1, <2>2, <2>3, <2>4, LeaseTypesKept, LeaseQuiet, Zenon
<1> QED
  BY <1>2, <1>3, <1>4, <1>5, Zenon

\* The answers of the facilitator to a worker.
LEMMA AnswerSteps ==
    ASSUME PipelineInv, PipelineInv', LeaseInv, RowsKept, NEW w \in Workers, NEW i \in Intents,
           RelayStep(w, i)
    PROVE  LeaseInv'
<1>1. UNCHANGED fenceVars /\ relay' \in SUBSET (Procs \X Intents)
  BY Zenon DEF RelayStep, RelayBroadcast, RelayRefuse, RelayDrop, Broadcast, Refuse, Drop, ChainOnly,
       LeaseInv, LeaseTypeOK
<1>2. LeaseTypeOK'
  BY <1>1, LeaseTypesKept, Zenon
<1>3. CASE proc' = proc
  BY <1>1, <1>2, <1>3, LeaseStill, Zenon
<1>4. CASE Flow(w) /\ Waiting(w, i) /\ proc'[w].pc \in {"record", "x_release", "mark"}
  BY <1>1, <1>2, <1>4, LeaseQuiet, Zenon DEF Waiting, At
<1> QED
  BY <1>3, <1>4, RelayFlows, Zenon

\* A step of a caller of the x402 endpoint.
LEMMA CallerSteps ==
    ASSUME PipelineInv, PipelineInv', LeaseInv, RowsKept, NEW c \in Callers,
           \/ CoordinatorStep(c) \/ Timeout(c)
           \/ \E i \in Intents : ExecuteRequest(c, i) \/ RelayStep(c, i)
    PROVE  LeaseInv'
<1>1. c \in Procs /\ c \notin Workers /\ Workers \subseteq Procs
  BY PipelineAssumption, Zenon
<1>2. UNCHANGED fenceVars
  BY Zenon DEF CoordinatorStep, CoordinatorReserve, Verify, CoordinatorRelease, Approve, SendSettle,
       RecordSubmission, SubmitReservation, Timeout, ExecuteRequest, RelayStep, RelayBroadcast,
       RelayRefuse, RelayDrop, LocalOnly, LedgerOnly, ArenaOnly, ChainOnly
<1>3. \A w \in Workers : proc'[w] = proc[w]
  <2>1. proc' = proc \/ \E r : Become(c, r)
    BY Zenon DEF CoordinatorStep, CoordinatorReserve, Verify, CoordinatorRelease, Approve, SendSettle,
       RecordSubmission, SubmitReservation, Timeout, ExecuteRequest, RelayStep, RelayBroadcast,
       RelayRefuse, RelayDrop, Goto, Return, ReleaseThen, EndCycle
  <2> QED
    BY <1>1, <2>1, Become_, Zenon
<1>4. relay' \in SUBSET (Procs \X Intents)
  <2>1. CASE SendSettle(c)
    <3>1. proc[c].intent \in Intents
      BY <1>1, <2>1, ProcHand, Zenon DEF SendSettle, At, Between, Knows
    <3> QED
      BY <1>1, <2>1, <3>1 DEF SendSettle, Send, LeaseInv, LeaseTypeOK
  <2>2. CASE \E i \in Intents : RelayStep(c, i)
    BY <2>2, Zenon DEF RelayStep, RelayBroadcast, RelayRefuse, RelayDrop, Broadcast, Refuse, Drop,
         LeaseInv, LeaseTypeOK
  <2> QED
    BY <2>1, <2>2, Zenon DEF CoordinatorStep, CoordinatorReserve, Verify, CoordinatorRelease, Approve,
       RecordSubmission, SubmitReservation, Timeout, ExecuteRequest, LocalOnly, LedgerOnly,
       ArenaOnly, chainVars, LeaseInv, LeaseTypeOK
<1> QED
  BY <1>2, <1>3, <1>4, LeaseTypesKept, LeaseStill, Zenon

\* Every step keeps the invariant of the leases.
LEMMA LeaseSteps ==
    ASSUME "stall" \notin Faults, PipelineInv, PipelineInv', RowsKept, LeaseInv,
           [PipelineNext]_vars
    PROVE  LeaseInv'
<1>1. CASE UNCHANGED vars
  <2>1. UNCHANGED fenceVars /\ relay' = relay /\ proc' = proc /\ RowsKept
    BY <1>1, RowsStay, Zenon DEF vars, chainVars
  <2> QED
    BY <2>1, LeaseTypesKept, LeaseStill, Zenon DEF LeaseInv, LeaseTypeOK
<1>2. CASE PipelineNext
  <2>2. ASSUME UNCHANGED fenceVars, relay' = relay, proc' = proc PROVE LeaseInv'
    BY <2>2, LeaseTypesKept, LeaseStill, Zenon DEF LeaseInv, LeaseTypeOK
  <2>3. ASSUME NEW w \in Workers, WorkerStep(w) PROVE LeaseInv'
    <3>1. CASE \/ RecoverFence(w) \/ ClaimAttempt(w) \/ ClaimFence(w) \/ Defer(w) \/ Sign(w)
               \/ MarkSubmitting(w) \/ MarkResult(w) \/ ReleaseFence(w)
               \/ HandlerFence(w) \/ HandlerMark(w)
      BY <3>1, FenceTypes, AttemptSteps, FenceMoves, Zenon
    <3> QED
      BY <2>3, <3>1, QuietSteps, Zenon DEF WorkerStep
  <2>4. ASSUME NEW p \in Procs, Timeout(p) \/ \E i \in Intents : RelayStep(p, i) PROVE LeaseInv'
    BY <2>4, PipelineAssumption, QuietSteps, AnswerSteps, CallerSteps, Zenon
  <2>5. CASE ReaderStep \/ MarketStep \/ PlayerStep \/ \E t \in Txs : MineStep(t)
    BY <2>2, <2>5, Zenon DEF ReaderStep, ReaderScan, ReaderTarget, ReaderRevert, ReaderConfirm,
         ReaderCommit, ReaderFrame, MarketStep, PlayerStep, MineStep, Mine, chainVars
  <2>6. CASE Crash
    <3>1. UNCHANGED fenceVars /\ relay' = relay
      BY <2>6, Zenon DEF Crash, chainVars
    <3> QED
      BY <2>2, <2>6, <3>1, QuietSteps, Zenon DEF Crash
  <2> QED
    BY <1>2, <2>3, <2>4, <2>5, <2>6, ExpirySteps, CallerSteps, Zenon DEF PipelineNext,
         SettlementNext
<1> QED
  BY <1>1, <1>2, Zenon

\* The invariant holds before anything is done.
LEMMA LeaseStarts == ASSUME PipelineInit PROVE LeaseInv
<1>1. /\ attempt = [i \in Intents |-> NoAttempt] /\ fence = NoFence /\ relay = {}
      /\ proc = [p \in Procs |-> Idle]
  BY Zenon DEF PipelineInit, FenceInit, ChainInit
<1>2. /\ NoAttempt \in AttemptState /\ NoAttempt.status = "none" /\ NoFence \in FenceState
      /\ Idle.pc = "idle"
  BY Zenon DEF NoAttempt, Attempt, AttemptState, AttemptStatus, NoFence, FenceOf, FenceState,
       Idle, Local
<1>3. LeaseTypeOK
  BY <1>1, <1>2, Zenon DEF LeaseTypeOK
<1>4. \A w \in Workers : proc[w].pc = "idle"
  BY <1>1, <1>2, PipelineAssumption, Zenon
<1>5. \A i \in Intents : attempt[i].status = "none"
  BY <1>1, <1>2, Zenon
<1>6. Leases /\ FenceGuards
  BY <1>4, <1>5, Zenon DEF Leases, FenceGuards, Between, Outcomes, Fenced
<1>7. OnePending
  BY <1>5, Zenon DEF OnePending, Pending
<1> QED
  BY <1>3, <1>6, <1>7, Zenon DEF LeaseInv

-----------------------------------------------------------------------------
(* The invariant of what was sent, without callers of the x402 endpoint *)

Relayed(i) == \E p \in Procs : <<p, i>> \in relay
OnChain(i) == \E t \in Txs : TxIntent[t] = i /\ chain[t] # "none"
Sent(i) == Relayed(i) \/ OnChain(i)

SentOnce ==
    \A i \in Intents :
        /\ \A p, q \in Procs : <<p, i>> \in relay /\ <<q, i>> \in relay => p = q
        /\ \A t, u \in Txs :
              (TxIntent[t] = i /\ chain[t] # "none" /\ TxIntent[u] = i /\ chain[u] # "none") => t = u
        /\ ~(Relayed(i) /\ OnChain(i))
        /\ attempt[i].status \in Before => ~Sent(i)

\* What was sent for the deal a worker has in its hand.
Sends ==
    \A w \in Workers :
        LET i == proc[w].intent IN
        /\ proc[w].pc \in Unsent => ~Sent(i)
        /\ proc[w].pc \in Funded => reservation[i].status = "reserved"
        /\ proc[w].pc = "wait" => ~OnChain(i) /\ \A p \in Procs : <<p, i>> \in relay => p = w

SendInv == SentOnce /\ Sends /\ BudgetLocked

-----------------------------------------------------------------------------
(* The invariant of what was written off, without later mandates *)

\* No mandate of the buyer is active and no reservation is: none of either
\* will be again.
Dead(i) ==
    /\ reservation[i].status \notin {"reserved", "submitted"}
    /\ \A m \in Mandates : Owner[m] = Buyer[i] => ~(mandate[m].status = "active" /\ InWindow(m, clock))

\* The attempt of the deal is over: no worker is going to send it.
Closed(i) ==
    /\ attempt[i].status \notin Before
    /\ \A w \in Workers : proc[w].intent = i => proc[w].pc \notin Funded \cup {"x_reserve"}

Mandated == \A m \in Mandates : mandate[m].status # "absent"

WriteOffInv ==
    /\ Mandated
    /\ \A w \in Workers : proc[w].pc = "no_mandate" => Dead(proc[w].intent)
    /\ \A i \in Intents : intent[i] = "authorization_failed" => (Dead(i) \/ Closed(i)) /\ ~InFlight(i)

-----------------------------------------------------------------------------
(* What was sent *)

\* While a worker executes a deal no other one prepares, executes or fails it.
LEMMA Alone ==
    ASSUME PipelineInv, LeaseInv, NEW w \in Workers, NEW v \in Workers \ {w},
           proc[w].pc \in Executing, proc[v].intent = proc[w].intent
    PROVE  proc[v].pc \notin Executing \cup Preparing \cup {"h_fail"}
<1>1. proc[w].pc \notin Between
  BY Zenon DEF Executing, Between
<1>2. attempt[proc[w].intent].owner = w /\ attempt[proc[w].intent].status = "submitting"
  BY <1>1, WorkerHand, Zenon DEF Leased
<1>3. CASE proc[v].pc \in Between
  BY <1>3, Zenon DEF Between, Executing, Preparing
<1>4. CASE proc[v].pc \notin Between
  <2>1. Leased(v, proc[v], attempt[proc[w].intent])
    BY <1>4, WorkerHand, Zenon
  <2> QED
    BY <1>2, <2>1, Zenon DEF Leased
<1> QED
  BY <1>3, <1>4, Zenon

LEMMA UnsentPcs ==
    /\ Unsent \subseteq Executing \cup {"h_fail"} /\ Funded \subseteq Unsent \cap Executing
    /\ Unsent \cap (Fresh \cup {"wait"}) = {}
BY Zenon DEF Unsent, Executing, Funded, Fresh, Between

\* A deal whose attempt is not begun was not sent, nor is one that a worker
\* has yet to send.
LEMMA NotSent ==
    ASSUME PipelineInv, LeaseInv, SendInv, NEW w \in Workers,
           proc[w].pc \in Unsent \cup Preparing
    PROVE  proc[w].intent \in Intents /\ ~Sent(proc[w].intent)
<1>1. proc[w].pc \notin Between
  BY Zenon DEF Unsent, Preparing, Between
<1>2. proc[w].intent \in Intents /\ Leased(w, proc[w], attempt[proc[w].intent])
  BY <1>1, WorkerHand, Zenon
<1> QED
  BY <1>2, Zenon DEF Leased, Before, SendInv, SentOnce, Sends

LEMMA FlightSent == ASSUME NEW i \in Intents, InFlight(i) PROVE Sent(i)
BY Zenon DEF InFlight, Sent, Relayed, OnChain

\* A step of worker w that sends nothing.
LEMMA SendQuiet ==
    ASSUME PipelineInv, LeaseInv, SendInv, UNCHANGED chainVars,
           \A i \in Intents : attempt'[i].status \in Before => attempt[i].status \in Before,
           NEW w \in Workers, Flow(w), proc'[w].pc # "wait",
           proc[w].pc = "wait" => proc'[w].pc \notin Unsent,
           \A i \in Intents : InFlight(i) => reservation'[i].status \in {"reserved", "submitted", "consumed"},
           \A v \in Workers : proc'[v].pc \in Funded => reservation'[proc'[v].intent].status = "reserved"
    PROVE  SendInv'
<1>1. relay' = relay /\ chain' = chain
  BY Zenon DEF chainVars
<1>2. \A i \in Intents : Sent(i)' = Sent(i) /\ OnChain(i)' = OnChain(i) /\ Relayed(i)' = Relayed(i)
                         /\ InFlight(i)' = InFlight(i)
  BY <1>1, Zenon DEF Sent, OnChain, Relayed, InFlight
<1>3. SentOnce'
  BY <1>1, <1>2 DEF SentOnce, SendInv
<1>4. BudgetLocked'
  BY <1>2, Zenon DEF BudgetLocked
<1>5. \A v \in Workers \ {w} : proc'[v] = proc[v]
  BY PipelineAssumption, Zenon DEF Flow
<1>6. proc'[w].pc \in Unsent => ~Sent(proc'[w].intent)
  <2>1. ASSUME proc'[w].pc \in Unsent
        PROVE  proc'[w].intent = proc[w].intent /\ proc[w].pc \in Unsent \cup Preparing
    <3>1. proc'[w].intent = proc[w].intent /\ Edge(proc[w].pc, proc'[w].pc)
      BY <2>1, UnsentPcs, Zenon DEF Flow
    <3>2. proc[w].pc \in Unsent \cup {"mark_submitting", "h_mark"}
      BY <2>1, <3>1, Zenon DEF Edge
    <3> QED
      BY <3>1, <3>2, Zenon DEF Preparing
  <2> QED
    BY <1>2, <2>1, NotSent, Zenon
<1>7. ASSUME NEW v \in Workers
      PROVE  /\ proc'[v].pc \in Unsent => ~Sent(proc'[v].intent)
             /\ proc'[v].pc = "wait" =>
                   ~OnChain(proc'[v].intent) /\ \A p \in Procs : <<p, proc'[v].intent>> \in relay => p = v
  <2>1. CASE v = w
    BY <1>6, <2>1, Zenon
  <2>2. CASE v # w
    <3>1. proc'[v] = proc[v]
      BY <1>5, <2>2, Zenon
    <3>2. proc[v].pc \in Unsent \cup {"wait"} => proc[v].intent \in Intents
      BY WorkerHand, Zenon DEF Unsent, Between
    <3> QED
      BY <1>1, <1>2, <3>1, <3>2, Zenon DEF SendInv, Sends
  <2> QED
    BY <2>1, <2>2, Zenon
<1>8. Sends'
  BY <1>1, <1>7, Zenon DEF Sends, Sent, OnChain, Relayed
<1> QED
  BY <1>3, <1>4, <1>8, Zenon DEF SendInv

\* The steps that change no reservation.
LEMMA SendStill ==
    ASSUME PipelineInv, LeaseInv, SendInv, UNCHANGED chainVars, reservation' = reservation,
           \A i \in Intents : attempt'[i].status \in Before => attempt[i].status \in Before,
           NEW w \in Workers, Flow(w), proc'[w].pc # "wait",
           proc[w].pc = "wait" => proc'[w].pc \notin Unsent,
           proc[w].pc = "x_reserve" => proc'[w].pc \notin Funded
    PROVE  SendInv'
<1>1. \A i \in Intents : InFlight(i) => reservation'[i].status \in {"reserved", "submitted", "consumed"}
  BY Zenon DEF SendInv, BudgetLocked
<1>2. ASSUME NEW v \in Workers, proc'[v].pc \in Funded
      PROVE  reservation'[proc'[v].intent].status = "reserved"
  <2>1. CASE v # w
    BY <1>2, <2>1, PipelineAssumption, Zenon DEF Flow, SendInv, Sends
  <2>2. CASE v = w
    <3>1. proc'[w].intent = proc[w].intent /\ proc[w].pc \in Funded
      BY <1>2, <2>2, UnsentPcs, Zenon DEF Flow, Edge
    <3> QED
      BY <2>2, <3>1, Zenon DEF SendInv, Sends
  <2> QED
    BY <2>1, <2>2, Zenon
<1> QED
  BY <1>1, <1>2, SendQuiet, Zenon

\* An attempt that has begun does not go back.
LEMMA BegunStays ==
    ASSUME PipelineInv, LeaseInv, NEW w \in Workers,
           \/ RecoverFence(w) \/ ClaimAttempt(w) \/ ClaimFence(w) \/ Defer(w) \/ Sign(w)
           \/ MarkSubmitting(w) \/ MarkResult(w) \/ ReleaseFence(w)
           \/ HandlerFence(w) \/ HandlerMark(w)
    PROVE  \A i \in Intents : attempt'[i].status \in Before => attempt[i].status \in Before
<1> DEFINE i == proc[w].intent
<1>1. /\ attempt \in [Intents -> AttemptState]
      /\ proc[w].pc \notin Between => i \in Intents /\ Leased(w, proc[w], attempt[i])
  BY WorkerHand, Zenon DEF LeaseInv, LeaseTypeOK
<1>2. CASE attempt' = attempt
  BY <1>2, Zenon
<1>3. CASE claim_attempt(i, w) \/ defer_attempt(i, w)
  <2>1. attempt[i].status \in Before
    BY <1>3, Zenon DEF claim_attempt, CanClaimAttempt, defer_attempt, CanDefer, Before
  <2>2. \A j \in Intents \ {i} : attempt'[j] = attempt[j]
    BY <1>1, <1>3, Zenon DEF claim_attempt, defer_attempt
  <2> QED
    BY <2>1, <2>2, Zenon
<1>4. ASSUME NEW s, mark_attempt(i, w, s), s \in Before => attempt[i].status \in Before, i \in Intents
      PROVE  \A j \in Intents : attempt'[j].status \in Before => attempt[j].status \in Before
  <2>1. \A j \in Intents \ {i} : attempt'[j] = attempt[j]
    BY <1>1, <1>4, Zenon DEF mark_attempt
  <2>2. attempt'[i].status = s
    BY <1>1, <1>4, Zenon DEF mark_attempt, Attempt
  <2> QED
    BY <1>4, <2>1, <2>2, Zenon
<1>5. CASE Sign(w)
  <2>1. i \in Intents /\ attempt[i].status \in Before
    BY <1>1, <1>5, Zenon DEF Sign, At, Between, Leased, Preparing, Before
  <2> QED
    BY <1>2, <1>4, <1>5, <2>1, Zenon DEF Sign, fenceVars
<1>6. CASE MarkSubmitting(w) \/ HandlerMark(w)
  <2>1. i \in Intents /\ "submitting" \notin Before /\ "failed" \notin Before
    BY <1>1, <1>6, Zenon DEF MarkSubmitting, HandlerMark, At, Between, Before
  <2> QED
    BY <1>2, <1>4, <1>6, <2>1, Zenon DEF MarkSubmitting, HandlerMark, fenceVars
<1>7. CASE MarkResult(w)
  <2>1. i \in Intents /\ proc[w].result \notin Before
    BY <1>1, <1>7, Zenon DEF MarkResult, At, Between, Leased, Before, Outcomes
  <2> QED
    BY <1>2, <1>4, <1>7, <2>1, Zenon DEF MarkResult, fenceVars
<1>8. CASE ClaimAttempt(w) \/ Defer(w)
  BY <1>2, <1>3, <1>8, Zenon DEF ClaimAttempt, Defer, fenceVars
<1>9. CASE RecoverFence(w) \/ ClaimFence(w) \/ ReleaseFence(w) \/ HandlerFence(w)
  BY <1>2, <1>9, Zenon DEF RecoverFence, ClearFence, ClaimFence, claim_facilitator_fence, ReleaseFence,
       HandlerFence, release_facilitator_fence, fenceVars
<1> QED
  BY <1>5, <1>6, <1>7, <1>8, <1>9, Zenon

\* The status that a call writes.
LEMMA ReservationColumns ==
    /\ \A m \in Mandates : ReservedRow(m).status = "reserved"
    /\ \A r \in ReservationRow, t \in Txs : SubmittedRow(r, t).status = "submitted"
BY Zenon DEF ReservationRow, NoReservation, ReservedRow, SubmittedRow

\* What the calls of the ledger do to the status of a reservation.
LEMMA ReservationMoves ==
    ASSUME LedgerTypeOK, NEW i \in Intents
    PROVE  /\ \A m \in Mandates : ReserveNow(m, i) =>
                 /\ reservation[i].status = "none" /\ reservation'[i].status = "reserved"
                 /\ \A j \in Intents \ {i} : reservation'[j] = reservation[j]
           /\ \A t \in Txs : submit_reservation(i, t) =>
                 /\ \/ reservation' = reservation
                    \/ reservation[i].status = "reserved" /\ reservation'[i].status = "submitted"
                 /\ \A j \in Intents \ {i} : reservation'[j] = reservation[j]
           /\ \A why \in Reasons : release_reservation(i, why) =>
                 \A j \in Intents \ {i} : reservation'[j] = reservation[j]
<1>1. reservation \in [Intents -> ReservationRow] /\ reservation[i] \in ReservationRow
  BY Zenon DEF LedgerTypeOK
<1>2. ASSUME NEW m \in Mandates, ReserveNow(m, i)
      PROVE  /\ reservation[i].status = "none" /\ reservation'[i].status = "reserved"
             /\ \A j \in Intents \ {i} : reservation'[j] = reservation[j]
  <2>1. reservation[i].status = "none" /\ reservation' = [reservation EXCEPT ![i] = ReservedRow(m)]
    BY <1>2, Zenon DEF ReserveNow, reserve_mandate, CanReserve
  <2> QED
    BY <1>1, <2>1, ReservationColumns, Zenon
<1>3. ASSUME NEW t \in Txs, submit_reservation(i, t)
      PROVE  /\ \/ reservation' = reservation
                \/ reservation[i].status = "reserved" /\ reservation'[i].status = "submitted"
             /\ \A j \in Intents \ {i} : reservation'[j] = reservation[j]
  <2>1. \/ reservation' = reservation
        \/ /\ reservation[i].status = "reserved"
           /\ reservation' = [reservation EXCEPT ![i] = SubmittedRow(reservation[i], t)]
    BY <1>3, Zenon DEF submit_reservation
  <2> QED
    BY <1>1, <2>1, ReservationColumns
<1>4. ASSUME NEW why \in Reasons, release_reservation(i, why)
      PROVE  \A j \in Intents \ {i} : reservation'[j] = reservation[j]
  <2>1. \/ reservation' = reservation
        \/ reservation' = [reservation EXCEPT ![i] = ReleasedRow(reservation[i], why)]
    BY <1>4, Zenon DEF release_reservation, ledgerVars
  <2> QED
    BY <1>1, <2>1, Zenon
<1> QED
  BY <1>2, <1>3, <1>4, Zenon

\* A step that moves no worker and sends nothing.
LEMMA SendSame ==
    ASSUME SendInv, UNCHANGED chainVars, proc' = proc, reservation' = reservation,
           \A i \in Intents : attempt'[i].status \in Before => attempt[i].status \in Before
    PROVE  SendInv'
<1>1. relay' = relay /\ chain' = chain
  BY Zenon DEF chainVars
<1> QED
  BY <1>1 DEF SendInv, SentOnce, Sends, BudgetLocked, Sent, OnChain, Relayed, InFlight

\* A call of worker w to the ledger, for its deal i.
LEMMA LedgerSend ==
    ASSUME PipelineInv, LeaseInv, SendInv, UNCHANGED chainVars, attempt' = attempt,
           NEW w \in Workers, Flow(w), proc[w].pc \notin {"wait", "settle"}, NEW i \in Intents,
           \A j \in Intents \ {i} : reservation'[j] = reservation[j],
           InFlight(i) => reservation'[i].status \in {"reserved", "submitted", "consumed"},
           \A v \in Workers \ {w} :
              proc[v].intent = i /\ proc[v].pc \in Funded => reservation'[i].status = "reserved",
           proc'[w].pc \in Funded => proc'[w].intent = i /\ reservation'[i].status = "reserved"
    PROVE  SendInv'
<1>1. \A j \in Intents : InFlight(j) => reservation'[j].status \in {"reserved", "submitted", "consumed"}
  BY Zenon DEF SendInv, BudgetLocked
<1>2. ASSUME NEW v \in Workers, proc'[v].pc \in Funded
      PROVE  reservation'[proc'[v].intent].status = "reserved"
  <2>1. CASE v = w
    BY <1>2, <2>1, Zenon
  <2>2. CASE v # w
    <3>1. proc'[v] = proc[v] /\ proc[v].pc \notin Between
      BY <1>2, <2>2, PipelineAssumption, Zenon DEF Flow, Funded, Between
    <3>2. proc[v].intent \in Intents /\ reservation[proc[v].intent].status = "reserved"
      BY <1>2, <3>1, WorkerHand, Zenon DEF SendInv, Sends
    <3> QED
      BY <1>2, <2>2, <3>1, <3>2, Zenon
  <2> QED
    BY <2>1, <2>2, Zenon
<1>3. proc'[w].pc # "wait"
  BY Zenon DEF Flow, Edge
<1> QED
  BY <1>1, <1>2, <1>3, SendQuiet, Zenon

\* The steps of a worker that send nothing and change no reservation.
LEMMA StillSteps ==
    ASSUME PipelineInv, LeaseInv, SendInv, NEW w \in Workers,
           \/ StartCycle(w) \/ FindTransaction(w) \/ ScanTargets(w) \/ ReadMandate(w)
           \/ RecoverRecord(w) \/ FailUnmandated(w) \/ Verify(w) \/ Approve(w)
           \/ RecordSubmission(w) \/ FailSettlement(w) \/ HandlerFail(w) \/ Timeout(w)
           \/ EndCycle(w) /\ UNCHANGED <<ledgerVars, fenceVars, chainVars>>
    PROVE  SendInv'
<1>1. UNCHANGED chainVars /\ UNCHANGED fenceVars /\ UNCHANGED ledgerVars
  BY Zenon DEF StartCycle, FindTransaction, ScanTargets, ReadMandate, RecoverRecord, FailUnmandated,
       Verify, Approve, RecordSubmission, FailSettlement, HandlerFail, Timeout, LocalOnly, ArenaOnly
<1>2. attempt' = attempt /\ reservation' = reservation
  BY <1>1, Zenon DEF fenceVars, ledgerVars
<1>3. w \in Procs /\ w \notin Callers
  BY PipelineAssumption, Zenon
<1>4. ASSUME Flow(w), proc[w].pc \notin {"wait", "settle", "x_reserve"} PROVE SendInv'
  <2>1. proc'[w].pc # "wait"
    BY <1>4, Zenon DEF Flow, Edge
  <2> QED
    BY <1>1, <1>2, <1>4, <2>1, SendStill, Zenon
<1>5. CASE EndCycle(w)
  <2>1. Flow(w) /\ proc'[w].pc \in Between
    BY <1>3, <1>5, EndFlows, BackAt, Zenon
  <2>2. proc'[w].pc \notin {"wait"} \cup Unsent \cup Funded
    BY <2>1, Zenon DEF Between, Unsent, Funded
  <2> QED
    BY <1>1, <1>2, <2>1, <2>2, SendStill, Zenon
<1>6. CASE StartCycle(w) \/ FindTransaction(w) \/ ScanTargets(w) \/ ReadMandate(w)
  <2>1. Flow(w) /\ proc[w].pc \in Between
    BY <1>3, <1>6, StartFlows, Zenon
  <2> QED
    BY <1>4, <2>1, Zenon DEF Between
<1>7. CASE Timeout(w)
  <2>1. Flow(w) /\ proc[w].pc = "wait"
    BY <1>7, CallFlows, Zenon DEF LeaseInv, Timeout, At
  <2>2. AfterExecute("unknown") = "mark" /\ "unknown" \in Outcomes
    BY Zenon DEF AfterExecute, Outcomes
  <2>3. Edge("wait", "mark")
    BY Zenon DEF Edge, Preparing, Fenced, Executing, Recovering, Unsent, Funded
  <2>4. proc'[w].pc = "mark"
    BY <1>3, <1>7, <2>1, <2>2, <2>3, ReturnFlows, Zenon DEF Timeout
  <2> QED
    BY <1>1, <1>2, <2>1, <2>4, SendStill, Zenon DEF Unsent
<1>8. CASE \/ RecoverRecord(w) \/ FailUnmandated(w) \/ Verify(w) \/ Approve(w)
           \/ RecordSubmission(w) \/ FailSettlement(w) \/ HandlerFail(w)
  <2>1. proc[w].pc \notin {"wait", "settle", "x_reserve"}
    BY <1>8, Zenon DEF RecoverRecord, FailUnmandated, Verify, Approve, RecordSubmission, FailSettlement,
         HandlerFail, At
  <2> QED
    BY <1>4, <1>8, <2>1, CallFlows, Zenon DEF LeaseInv
<1> QED
  BY <1>5, <1>6, <1>7, <1>8, Zenon

\* The steps of a worker that change a lease or the fence.
LEMMA LeaseSends ==
    ASSUME PipelineInv, LeaseInv, SendInv, NEW w \in Workers,
           \/ RecoverFence(w) \/ ClaimAttempt(w) \/ ClaimFence(w) \/ Defer(w) \/ Sign(w)
           \/ MarkSubmitting(w) \/ MarkResult(w) \/ ReleaseFence(w)
           \/ HandlerFence(w) \/ HandlerMark(w)
    PROVE  SendInv'
<1>1. UNCHANGED chainVars /\ UNCHANGED ledgerVars
  BY Zenon DEF RecoverFence, ClaimAttempt, ClaimFence, Defer, Sign, MarkSubmitting, MarkResult,
       ReleaseFence, HandlerFence, HandlerMark, FenceOnly
<1>2. reservation' = reservation
  BY <1>1, Zenon DEF ledgerVars
<1>3. Flow(w)
  BY PipelineAssumption, LeaseFlows, Zenon
<1>4. proc[w].pc \notin {"wait", "settle", "x_reserve"}
  BY Zenon DEF RecoverFence, ClaimAttempt, ClaimFence, Defer, Sign, MarkSubmitting, MarkResult,
       ReleaseFence, HandlerFence, HandlerMark, At
<1>5. proc'[w].pc # "wait"
  BY <1>3, <1>4, Zenon DEF Flow, Edge
<1> QED
  BY <1>1, <1>2, <1>3, <1>4, <1>5, BegunStays, SendStill, Zenon

\* The calls to the ledger for one deal.
LEMMA LedgerSends ==
    ASSUME PipelineInv, LeaseInv, SendInv, NEW w \in Workers,
           \/ RecoverSubmit(w) \/ ReserveBudget(w) \/ CoordinatorReserve(w)
           \/ CoordinatorRelease(w) \/ SubmitReservation(w) \/ HandlerRelease(w)
    PROVE  SendInv'
<1> DEFINE i == proc[w].intent
<1>1. UNCHANGED chainVars /\ attempt' = attempt
  BY Zenon DEF RecoverSubmit, ReserveBudget, CoordinatorReserve, CoordinatorRelease, SubmitReservation,
       HandlerRelease, LedgerOnly, fenceVars
<1>2. Flow(w)
  BY CallFlows, Zenon DEF LeaseInv
<1>3. proc[w].pc \in {"r_submit", "reserve", "x_reserve", "x_release", "submit", "h_release"}
  BY Zenon DEF RecoverSubmit, ReserveBudget, CoordinatorReserve, CoordinatorRelease,
       SubmitReservation, HandlerRelease, At
<1>4. w \in Procs /\ w \notin Callers /\ i \in Intents
  BY <1>3, WorkerHand, PipelineAssumption, Zenon DEF Between
<1>5. LedgerTypeOK
  BY Zenon DEF PipelineInv, LedgerInv
<1>6. proc[w].pc # "x_reserve" => proc'[w].pc \notin Funded
  BY <1>2, <1>3, Zenon DEF Flow, Edge, Funded
<1>7. ASSUME NEW v \in Workers \ {w}, proc[v].intent = i, proc[v].pc \in Funded
      PROVE  reservation[i].status = "reserved"
  BY <1>7, Zenon DEF SendInv, Sends
<1>8. InFlight(i) => reservation[i].status \in {"reserved", "submitted", "consumed"}
  BY <1>4, Zenon DEF SendInv, BudgetLocked
<1>9. ASSUME reservation' = reservation,
             proc'[w].pc \in Funded => proc'[w].intent = i /\ reservation[i].status = "reserved"
      PROVE  SendInv'
  BY <1>1, <1>2, <1>3, <1>4, <1>7, <1>8, <1>9, LedgerSend
<1>10. ASSUME NEW m \in Mandates, ReserveNow(m, i), proc'[w].pc \in Funded => proc'[w].intent = i
       PROVE  SendInv'
  <2>1. /\ reservation[i].status = "none" /\ reservation'[i].status = "reserved"
        /\ \A j \in Intents \ {i} : reservation'[j] = reservation[j]
    BY <1>4, <1>5, <1>10, ReservationMoves, Zenon
  <2> QED
    BY <1>1, <1>2, <1>3, <1>4, <1>10, <2>1, LedgerSend, Zenon
<1>11. ASSUME NEW t \in Txs, submit_reservation(i, t), proc'[w].pc \notin Funded,
              \A v \in Workers \ {w} : proc[v].intent = i => proc[v].pc \notin Funded
       PROVE  SendInv'
  <2>1. /\ \/ reservation' = reservation
           \/ reservation[i].status = "reserved" /\ reservation'[i].status = "submitted"
        /\ \A j \in Intents \ {i} : reservation'[j] = reservation[j]
    BY <1>4, <1>5, <1>11, ReservationMoves, Zenon
  <2> QED
    BY <1>1, <1>2, <1>3, <1>4, <1>8, <1>11, <2>1, LedgerSend
<1>12. ASSUME NEW why \in Reasons, release_reservation(i, why), proc'[w].pc \notin Funded,
              proc[w].pc \in Unsent \cup Preparing,
              \A v \in Workers \ {w} : proc[v].intent = i => proc[v].pc \notin Funded
       PROVE  SendInv'
  <2>1. \A j \in Intents \ {i} : reservation'[j] = reservation[j]
    BY <1>4, <1>5, <1>12, ReservationMoves, Zenon
  <2>2. ~InFlight(i)
    BY <1>4, <1>12, NotSent, FlightSent, Zenon
  <2> QED
    BY <1>1, <1>2, <1>3, <1>4, <1>12, <2>1, <2>2, LedgerSend
<1>13. CASE RecoverSubmit(w)
  <2>1. proc[w].pc = "r_submit" /\ proc[w].tx \in Txs /\ TxIntent[proc[w].tx] = i /\ chain[proc[w].tx] = "success"
    BY <1>4, <1>13, ProcHand, Zenon DEF RecoverSubmit, At, Knows, TxPcs, RecoveryPcs
  <2>2. Sent(i)
    BY <2>1, Zenon DEF Sent, OnChain
  <2>3. \A v \in Workers : proc[v].intent = i => proc[v].pc \notin Funded
    BY <2>2, UnsentPcs, Zenon DEF SendInv, Sends
  <2>4. proc'[w].pc \notin Funded
    BY <1>6, <2>1, Zenon
  <2>5. submit_reservation(i, proc[w].tx) \/ reservation' = reservation
    BY <1>13, Zenon DEF RecoverSubmit, ledgerVars
  <2> QED
    BY <1>9, <1>11, <2>1, <2>3, <2>4, <2>5, Zenon
<1>14. CASE ReserveBudget(w)
  <2>1. proc[w].pc = "reserve" /\ proc[w].mandate \in Mandates
    BY <1>4, <1>14, ProcHand, Zenon DEF ReserveBudget, At, Knows, MandatePcs
  <2>2. proc'[w].pc \notin Funded
    BY <1>6, <2>1, Zenon
  <2>3. ReserveNow(proc[w].mandate, i) \/ reservation' = reservation
    BY <1>14, Zenon DEF ReserveBudget, ledgerVars
  <2> QED
    BY <1>9, <1>10, <2>1, <2>2, <2>3, Zenon
<1>15. CASE CoordinatorReserve(w)
  <2>1. proc[w].pc = "x_reserve" /\ proc[w].mandate \in Mandates
    BY <1>4, <1>15, ProcHand, Zenon DEF CoordinatorReserve, At, Knows, MandatePcs
  <2>2. proc'[w].pc \in Funded => proc'[w].intent = i
    BY <1>2, UnsentPcs, Zenon DEF Flow
  <2>3. CASE ReserveNow(proc[w].mandate, i)
    BY <1>10, <2>1, <2>2, <2>3, Zenon
  <2>4. CASE reservation' = reservation /\ (Return(w, "submitted") \/ Return(w, "failed") \/ EndCycle(w))
    <3>1. /\ AfterExecute("failed") = "fail" /\ AfterExecute("submitted") = "mark"
          /\ "failed" \in Outcomes /\ "submitted" \in Outcomes
      BY Zenon DEF AfterExecute, Outcomes
    <3>2. Edge("x_reserve", "fail") /\ Edge("x_reserve", "mark")
      BY Zenon DEF Edge, Preparing, Fenced, Executing, Recovering, Unsent, Funded
    <3>3. proc'[w].pc \in {"fail", "mark"} \cup Between
      BY <1>4, <2>1, <2>4, <3>1, <3>2, ReturnFlows, BackAt, Zenon
    <3> QED
      BY <1>9, <2>4, <3>3, Zenon DEF Funded, Between
  <2>5. CASE reservation' = reservation /\ reservation[i].status = "reserved"
    BY <1>9, <2>2, <2>5, Zenon
  <2> QED
    BY <1>15, <2>3, <2>4, <2>5, Zenon DEF CoordinatorReserve, ledgerVars
<1>16. CASE CoordinatorRelease(w)
  <2>1. proc[w].pc = "x_release" /\ proc[w].why \in Reasons
    BY <1>4, <1>16, ProcHand, Zenon DEF CoordinatorRelease, At, Knows
  <2>2. \A v \in Workers \ {w} : proc[v].intent = i => proc[v].pc \notin Funded
    BY <2>1, Alone, UnsentPcs, Zenon DEF Executing
  <2>3. release_reservation(i, proc[w].why) \/ reservation' = reservation
    BY <1>16, Zenon DEF CoordinatorRelease, ledgerVars
  <2>4. proc'[w].pc \notin Funded /\ proc[w].pc \in Unsent
    BY <1>6, <2>1, Zenon DEF Unsent
  <2> QED
    BY <1>9, <1>12, <2>1, <2>2, <2>3, <2>4, Zenon
<1>17. CASE SubmitReservation(w)
  <2>1. proc[w].pc = "submit" /\ proc[w].tx \in Txs
    BY <1>4, <1>17, ProcHand, Zenon DEF SubmitReservation, At, Knows, TxPcs
  <2>2. \A v \in Workers \ {w} : proc[v].intent = i => proc[v].pc \notin Funded
    BY <2>1, Alone, UnsentPcs, Zenon DEF Executing
  <2>3. submit_reservation(i, proc[w].tx) \/ reservation' = reservation
    BY <1>17, Zenon DEF SubmitReservation, ledgerVars
  <2>4. proc'[w].pc \notin Funded
    BY <1>6, <2>1, Zenon
  <2> QED
    BY <1>9, <1>11, <2>1, <2>2, <2>3, <2>4, Zenon
<1>18. CASE HandlerRelease(w)
  <2>1. proc[w].pc = "h_release" /\ "automatic_settlement_pre_submission_failed" \in Reasons
    BY <1>18, PipelineAssumption, Zenon DEF HandlerRelease, At
  <2>2. \A v \in Workers \ {w} : proc[v].intent = i => proc[v].pc \notin Funded
    BY <2>1, Alone, UnsentPcs, Zenon DEF Preparing
  <2>3. \/ release_reservation(i, "automatic_settlement_pre_submission_failed")
        \/ reservation' = reservation
    BY <1>18, Zenon DEF HandlerRelease, ledgerVars
  <2>4. proc'[w].pc \notin Funded /\ proc[w].pc \in Preparing
    BY <1>6, <2>1, Zenon DEF Preparing
  <2> QED
    BY <1>9, <1>12, <2>1, <2>2, <2>3, <2>4, Zenon
<1> QED
  BY <1>13, <1>14, <1>15, <1>16, <1>17, <1>18, Zenon

\* A deal whose transaction reverted has nothing in flight.
LEMMA RevertedOver ==
    ASSUME PipelineInv, SendInv, NEW j \in Intents, intent[j] = "reverted" PROVE ~InFlight(j)
<1>1. submission[j].tx \in Txs
  BY TermsAssumption, Zenon DEF PipelineInv, ArenaInv, ArenaTypeOK, EvidenceComplete, Submitted
<1>2. chain[submission[j].tx] = "reverted" /\ TxIntent[submission[j].tx] = j
  BY <1>1, TermsAssumption, Zenon DEF PipelineInv, DealBooks
<1>3. OnChain(j)
  BY <1>1, <1>2, Zenon DEF OnChain
<1>4. ~Relayed(j)
  BY <1>3, Zenon DEF SendInv, SentOnce
<1>5. \A t \in Txs : TxIntent[t] = j /\ chain[t] \in {"pending", "success"} => t = submission[j].tx
  BY <1>1, <1>2, Zenon DEF SendInv, SentOnce
<1> QED
  BY <1>2, <1>4, <1>5, Zenon DEF InFlight, Relayed

\* Reconciling releases only what a reverted transaction failed to pay.
LEMMA ReconcileSends ==
    ASSUME PipelineInv, LeaseInv, SendInv, NEW w \in Workers, Reconcile(w)
    PROVE  SendInv'
<1>1. UNCHANGED chainVars /\ attempt' = attempt
  BY Zenon DEF Reconcile, LedgerOnly, fenceVars
<1>2. Flow(w) /\ proc[w].pc = "queue"
  BY CallFlows, Zenon DEF LeaseInv, Reconcile, At
<1>3. proc'[w].pc \notin Funded \cup {"wait"}
  BY <1>2, Zenon DEF Flow, Edge, Funded
<1>4. ASSUME NEW j \in Intents
      PROVE  /\ reservation[j].status = "reserved" => reservation'[j] = reservation[j]
             /\ \/ reservation'[j] = reservation[j]
                \/ reservation'[j].status = "consumed"
                \/ intent[j] = "reverted"
  <2>1. reservation[j] \in ReservationRow
    BY Zenon DEF PipelineInv, LedgerInv, LedgerTypeOK
  <2>2. \/ reservation'[j] = reservation[j]
        \/ reservation[j].status = "submitted" /\ intent[j] = "reverted"
        \/ /\ reservation[j].status = "submitted"
           /\ reservation'[j] = ConsumedRow(reservation[j], reservation[j].tx)
    BY Zenon DEF Reconcile, reconcile_finalized_reservations
  <2> QED
    BY <2>1, <2>2, Zenon DEF ConsumedRow, ReservationRow
<1>5. \A j \in Intents : intent[j] = "reverted" => ~InFlight(j)
  BY RevertedOver, Zenon
<1>6. \A j \in Intents : InFlight(j) => reservation'[j].status \in {"reserved", "submitted", "consumed"}
  BY <1>4, <1>5, Zenon DEF SendInv, BudgetLocked
<1>7. ASSUME NEW v \in Workers, proc'[v].pc \in Funded
      PROVE  reservation'[proc'[v].intent].status = "reserved"
  <2>1. v # w /\ proc'[v] = proc[v] /\ proc[v].pc \notin Between
    BY <1>2, <1>3, <1>7, PipelineAssumption, Zenon DEF Flow, Funded, Between
  <2>2. proc[v].intent \in Intents /\ reservation[proc[v].intent].status = "reserved"
    BY <1>7, <2>1, WorkerHand, Zenon DEF SendInv, Sends
  <2> QED
    BY <1>4, <2>1, <2>2, Zenon
<1> QED
  BY <1>1, <1>2, <1>3, <1>6, <1>7, SendQuiet, Zenon

\* Neither a request of the relays nor a block holds a payment of the deal.
Clear(i, requests, blocks) ==
    /\ \A p \in Procs : <<p, i>> \notin requests
    /\ \A t \in Txs : TxIntent[t] = i => blocks[t] = "none"

\* A step of the facilitator or the chain for deal i, and of a worker on it.
LEMMA ChainSend ==
    ASSUME PipelineInv, LeaseInv, SendInv, attempt' = attempt, reservation' = reservation,
           NEW i \in Intents,
           \A p \in Procs : \A j \in Intents \ {i} : <<p, j>> \in relay' <=> <<p, j>> \in relay,
           \A t \in Txs : TxIntent[t] # i => chain'[t] = chain[t],
           \A p, q \in Procs : <<p, i>> \in relay' /\ <<q, i>> \in relay' => p = q,
           \A t, u \in Txs : (TxIntent[t] = i /\ chain'[t] # "none" /\ TxIntent[u] = i /\ chain'[u] # "none") => t = u,
           ~(Relayed(i)' /\ OnChain(i)'),
           attempt[i].status \in Before => ~Sent(i)',
           InFlight(i)' => reservation[i].status \in {"reserved", "submitted", "consumed"},
           \A v \in Workers : proc'[v].intent # i => proc'[v] = proc[v],
           \A v \in Workers : proc'[v].intent = i =>
              /\ proc'[v].pc \in Unsent => Clear(i, relay', chain')
              /\ proc'[v].pc \in Funded => reservation[i].status = "reserved"
              /\ proc'[v].pc = "wait" =>
                    /\ \A t \in Txs : TxIntent[t] = i => chain'[t] = "none"
                    /\ \A p \in Procs : <<p, i>> \in relay' => p = v
    PROVE  SendInv'
<1>1. ASSUME NEW j \in Intents \ {i}
      PROVE  /\ Relayed(j)' = Relayed(j) /\ OnChain(j)' = OnChain(j) /\ InFlight(j)' = InFlight(j)
             /\ Sent(j)' = Sent(j)
  <2>1. \A t \in Txs : TxIntent[t] = j => chain'[t] = chain[t]
    BY Zenon
  <2> QED
    BY <2>1, Zenon DEF Relayed, OnChain, InFlight, Sent
<1>2. SentOnce'
  <2> SUFFICES ASSUME NEW j \in Intents
               PROVE  /\ \A p, q \in Procs : <<p, j>> \in relay' /\ <<q, j>> \in relay' => p = q
                      /\ \A t, u \in Txs :
                            (TxIntent[t] = j /\ chain'[t] # "none" /\ TxIntent[u] = j /\ chain'[u] # "none") => t = u
                      /\ ~(Relayed(j)' /\ OnChain(j)')
                      /\ attempt'[j].status \in Before => ~Sent(j)'
    BY Zenon DEF SentOnce
  <2>1. CASE j = i
    BY <2>1, Zenon
  <2>2. CASE j # i
    <3>1. \A t \in Txs : TxIntent[t] = j => chain'[t] = chain[t]
      BY <2>2, Zenon
    <3> QED
      BY <1>1, <2>2, <3>1 DEF SendInv, SentOnce
  <2> QED
    BY <2>1, <2>2, Zenon
<1>3. BudgetLocked'
  BY <1>1, Zenon DEF BudgetLocked, SendInv
<1>4. ASSUME NEW v \in Workers
      PROVE  /\ proc'[v].pc \in Unsent => Clear(proc'[v].intent, relay', chain')
             /\ proc'[v].pc \in Funded => reservation'[proc'[v].intent].status = "reserved"
             /\ proc'[v].pc = "wait" =>
                   /\ \A t \in Txs : TxIntent[t] = proc'[v].intent => chain'[t] = "none"
                   /\ \A p \in Procs : <<p, proc'[v].intent>> \in relay' => p = v
  <2>1. CASE proc'[v].intent = i
    BY <2>1, Zenon
  <2>2. CASE proc'[v].intent # i
    <3>1. proc'[v] = proc[v]
      BY <2>2, Zenon
    <3>2. proc[v].pc \in Unsent \cup {"wait"} => proc[v].intent \in Intents \ {i}
      BY <2>2, <3>1, WorkerHand, Zenon DEF Unsent, Between
    <3>3. proc[v].pc \in Unsent => ~Sent(proc[v].intent)
      BY Zenon DEF SendInv, Sends
    <3>4. proc[v].pc \in Unsent => Clear(proc[v].intent, relay', chain')
      BY <3>2, <3>3, Zenon DEF Clear, Sent, Relayed, OnChain
    <3>5. proc[v].pc \in Funded => reservation'[proc[v].intent].status = "reserved"
      BY Zenon DEF SendInv, Sends
    <3>6. proc[v].pc = "wait" =>
             /\ \A t \in Txs : TxIntent[t] = proc[v].intent => chain'[t] = "none"
             /\ \A p \in Procs : <<p, proc[v].intent>> \in relay' => p = v
      BY <3>2 DEF SendInv, Sends, OnChain
    <3> QED
      BY <3>1, <3>4, <3>5, <3>6, Zenon
  <2> QED
    BY <2>1, <2>2, Zenon
<1>5. Sends'
  BY <1>4, Zenon DEF Sends, Clear, Sent, Relayed, OnChain
<1> QED
  BY <1>2, <1>3, <1>5, Zenon DEF SendInv

\* A worker sends what nobody has sent.
LEMMA SettleSends ==
    ASSUME PipelineInv, LeaseInv, SendInv, NEW w \in Workers, SendSettle(w)
    PROVE  SendInv'
<1>1. proc[w].pc = "settle" /\ w \in Procs /\ proc[w].intent \in Intents
  BY WorkerHand, Zenon DEF SendSettle, At, Between
<1>2. PICK i \in Intents : proc[w].intent = i
  BY <1>1, Zenon
<1>3. /\ relay' = relay \cup {<<w, i>>} /\ chain' = chain /\ attempt' = attempt
      /\ reservation' = reservation /\ Goto(w, "wait")
  BY <1>2, Zenon DEF SendSettle, Send, ChainOnly, fenceVars, ledgerVars
<1>4. proc'[w].pc = "wait" /\ proc'[w].intent = i /\ \A v \in Workers \ {w} : proc'[v] = proc[v]
  <2>1. "wait" \in Pcs
    BY Zenon DEF Pcs
  <2>2. Flow(w)
    BY CallFlows, Zenon DEF LeaseInv
  <2> QED
    BY <1>1, <1>2, <1>3, <2>1, <2>2, GotoAt, PipelineAssumption, Zenon DEF Flow
<1>5. Clear(i, relay, chain) /\ reservation[i].status = "reserved"
  BY <1>1, <1>2, Zenon DEF SendInv, Sends, Unsent, Funded, Clear, Sent, Relayed, OnChain
<1>6. attempt[i].status \notin Before
  BY <1>1, <1>2, WorkerHand, Zenon DEF Leased, Executing, Before, Between
<1>7. \A v \in Workers \ {w} : proc[v].intent = i => proc[v].pc \notin Unsent \cup Funded \cup {"wait"}
  BY <1>1, <1>2, Alone, UnsentPcs, Zenon DEF Executing
<1>8. \A p \in Procs : <<p, i>> \in relay' => p = w
  BY <1>3, <1>5, Zenon DEF Clear
<1>9. ~OnChain(i)'
  BY <1>3, <1>5, Zenon DEF OnChain, Clear
<1>10. "wait" \notin Unsent \cup Funded
  BY Zenon DEF Unsent, Funded
<1>11. \A v \in Workers : proc'[v].intent = i =>
              /\ proc'[v].pc \in Unsent => Clear(i, relay', chain')
              /\ proc'[v].pc \in Funded => reservation[i].status = "reserved"
              /\ proc'[v].pc = "wait" =>
                    /\ \A t \in Txs : TxIntent[t] = i => chain'[t] = "none"
                    /\ \A p \in Procs : <<p, i>> \in relay' => p = v
  <2> SUFFICES ASSUME NEW v \in Workers, proc'[v].intent = i
               PROVE  /\ proc'[v].pc \in Unsent => Clear(i, relay', chain')
                      /\ proc'[v].pc \in Funded => reservation[i].status = "reserved"
                      /\ proc'[v].pc = "wait" =>
                            /\ \A t \in Txs : TxIntent[t] = i => chain'[t] = "none"
                            /\ \A p \in Procs : <<p, i>> \in relay' => p = v
    BY Zenon
  <2>1. CASE v = w
    BY <1>3, <1>4, <1>5, <1>8, <1>10, <2>1, Zenon DEF Clear
  <2>2. CASE v # w
    BY <1>4, <1>7, <2>2, Zenon
  <2> QED
    BY <2>1, <2>2, Zenon
<1>12. \A p \in Procs : \A j \in Intents \ {i} : <<p, j>> \in relay' <=> <<p, j>> \in relay
  BY <1>3, Zenon
<1>13. \A t \in Txs : TxIntent[t] = i => chain'[t] = "none"
  BY <1>3, <1>5, Zenon DEF Clear
<1>14. \A v \in Workers : proc'[v].intent # i => proc'[v] = proc[v]
  BY <1>4, Zenon
<1>15. \A p, q \in Procs : <<p, i>> \in relay' /\ <<q, i>> \in relay' => p = q
  BY <1>8, Zenon
<1>16. InFlight(i)' => reservation[i].status \in {"reserved", "submitted", "consumed"}
  BY <1>5, Zenon
<1>17. /\ attempt' = attempt /\ reservation' = reservation
       /\ \A t \in Txs : TxIntent[t] # i => chain'[t] = chain[t]
       /\ \A t, u \in Txs :
             (TxIntent[t] = i /\ chain'[t] # "none" /\ TxIntent[u] = i /\ chain'[u] # "none") => t = u
  BY <1>3, <1>13, Zenon
<1> QED
  BY <1>6, <1>9, <1>11, <1>12, <1>14, <1>15, <1>16, <1>17, ChainSend, Zenon

\* While a request for the deal is with a relay, it is the only one; nothing
\* is on the chain and no worker is about to send.
LEMMA RelayedOnce ==
    ASSUME PipelineInv, LeaseInv, SendInv, NEW p \in Procs, NEW i \in Intents, <<p, i>> \in relay
    PROVE  /\ \A q \in Procs : <<q, i>> \in relay => q = p
           /\ \A t \in Txs : TxIntent[t] = i => chain[t] = "none"
           /\ reservation[i].status \in {"reserved", "submitted", "consumed"}
           /\ attempt[i].status \notin Before
           /\ \A v \in Workers : proc[v].intent = i => proc[v].pc \notin Unsent \cup Funded
           /\ \A v \in Workers : proc[v].intent = i /\ proc[v].pc = "wait" => v = p
<1>1. Relayed(i) /\ Sent(i) /\ InFlight(i)
  BY Zenon DEF Relayed, Sent, InFlight
<1>2. ~OnChain(i)
  BY <1>1, Zenon DEF SendInv, SentOnce
<1>3. \A v \in Workers : proc[v].intent = i => proc[v].pc \notin Unsent \cup Funded
  BY <1>1, UnsentPcs, Zenon DEF SendInv, Sends
<1>4. \A v \in Workers : proc[v].intent = i /\ proc[v].pc = "wait" => v = p
  BY Zenon DEF SendInv, Sends
<1> QED
  BY <1>1, <1>2, <1>3, <1>4, Zenon DEF SendInv, SentOnce, BudgetLocked, OnChain

\* The relay's broadcast takes the request's place on the chain.
LEMMA BroadcastSends ==
    ASSUME PipelineInv, LeaseInv, SendInv, NEW w \in Workers, NEW i \in Intents, NEW t \in Txs,
           RelayBroadcast(w, i, t)
    PROVE  SendInv'
<1>1. /\ <<w, i>> \in relay /\ TxIntent[t] = i /\ chain' = [chain EXCEPT ![t] = "pending"]
      /\ relay' = relay \ {<<w, i>>} /\ attempt' = attempt /\ reservation' = reservation
  BY Zenon DEF RelayBroadcast, Broadcast, ChainOnly, fenceVars, ledgerVars
<1>2. w \in Procs /\ w \notin Callers
  BY PipelineAssumption, Zenon
<1>3. /\ \A q \in Procs : <<q, i>> \in relay => q = w
      /\ \A u \in Txs : TxIntent[u] = i => chain[u] = "none"
      /\ reservation[i].status \in {"reserved", "submitted", "consumed"}
      /\ attempt[i].status \notin Before
      /\ \A v \in Workers : proc[v].intent = i => proc[v].pc \notin Unsent \cup Funded
      /\ \A v \in Workers : proc[v].intent = i /\ proc[v].pc = "wait" => v = w
  BY <1>1, <1>2, RelayedOnce, Zenon
<1>4. chain \in [Txs -> {"none", "pending", "success", "reverted"}]
  BY Zenon DEF PipelineInv, PipelineTypeOK
<1>5. /\ \A u \in Txs : u # t => chain'[u] = chain[u]
      /\ \A u \in Txs : TxIntent[u] = i /\ chain'[u] # "none" => u = t
  BY <1>1, <1>3, <1>4, Zenon
<1>6. /\ \A q \in Procs : <<q, i>> \notin relay'
      /\ \A p \in Procs : \A j \in Intents \ {i} : <<p, j>> \in relay' <=> <<p, j>> \in relay
  BY <1>1, <1>3, Zenon
<1>7. ~Relayed(i)'
  BY <1>6, Zenon DEF Relayed
<1>8. Waiting(w, i) => proc'[w].pc = "record" /\ proc'[w].intent = i
  <2> SUFFICES ASSUME Waiting(w, i) PROVE proc'[w].pc = "record" /\ proc'[w].intent = i
    BY Zenon
  <2>1. proc'[w] = WithPc(WithTx(proc[w], t), "record")
    BY <1>2, Become_, Zenon DEF RelayBroadcast
  <2>2. WithTx(proc[w], t) \in LocalState /\ WithTx(proc[w], t).intent = i
    BY <1>2, ProcHand, RowUpdates, Zenon DEF PipelineInv, Waiting
  <2> QED
    BY <2>1, <2>2, Zenon DEF WithPc, LocalState
<1>9. \A v \in Workers : \/ proc'[v] = proc[v] /\ (proc[v].intent = i => proc[v].pc # "wait")
                         \/ proc'[v].intent = i /\ proc'[v].pc = "record"
  <2>1. CASE Waiting(w, i)
    <3>1. \A v \in Workers \ {w} : proc'[v] = proc[v]
      BY <1>2, <2>1, Become_, PipelineAssumption, Zenon DEF RelayBroadcast
    <3> QED
      BY <1>3, <1>8, <2>1, <3>1, Zenon
  <2>2. CASE ~Waiting(w, i)
    BY <1>3, <2>2, Zenon DEF RelayBroadcast, Waiting, At
  <2> QED
    BY <2>1, <2>2, Zenon
<1>10. "record" \notin Unsent \cup Funded
  BY Zenon DEF Unsent, Funded
<1>11. \A v \in Workers : proc'[v].intent = i => proc'[v].pc \notin Unsent \cup Funded \cup {"wait"}
  BY <1>3, <1>9, <1>10, Zenon
<1> QED
  BY <1>1, <1>3, <1>5, <1>6, <1>7, <1>9, <1>11, ChainSend

\* A request that the relay refuses or loses was the only one.
LEMMA DropSends ==
    ASSUME PipelineInv, LeaseInv, SendInv, NEW w \in Workers, NEW i \in Intents,
           RelayRefuse(w, i) \/ RelayDrop(w, i)
    PROVE  SendInv'
<1>1. /\ <<w, i>> \in relay /\ chain' = chain /\ relay' = relay \ {<<w, i>>}
      /\ attempt' = attempt /\ reservation' = reservation
  BY Zenon DEF RelayRefuse, RelayDrop, Refuse, Drop, ChainOnly, fenceVars, ledgerVars
<1>2. w \in Procs /\ w \notin Callers
  BY PipelineAssumption, Zenon
<1>3. /\ \A q \in Procs : <<q, i>> \in relay => q = w
      /\ \A u \in Txs : TxIntent[u] = i => chain[u] = "none"
      /\ \A v \in Workers : proc[v].intent = i => proc[v].pc \notin Unsent \cup Funded
  BY <1>1, <1>2, RelayedOnce, Zenon
<1>4. Clear(i, relay', chain')
  BY <1>1, <1>3, Zenon DEF Clear
<1>5. ~Relayed(i)' /\ ~OnChain(i)' /\ ~Sent(i)' /\ ~InFlight(i)'
  BY <1>4, Zenon DEF Clear, Relayed, OnChain, Sent, InFlight
<1>6. \A v \in Workers : \/ proc'[v] = proc[v]
                         \/ proc'[v].intent = i /\ proc'[v].pc \in {"record", "x_release", "mark"}
  BY RelayFlows, PipelineAssumption, Zenon DEF RelayStep, Flow
<1>7. \A v \in Workers : proc'[v].intent = i => proc'[v].pc \notin Funded
  BY <1>3, <1>6, Zenon DEF Funded
<1>8. \A p \in Procs : \A j \in Intents \ {i} : <<p, j>> \in relay' <=> <<p, j>> \in relay
  BY <1>1, Zenon
<1>9. \A q \in Procs : <<q, i>> \notin relay'
  BY <1>4, Zenon DEF Clear
<1>10. \A t \in Txs : TxIntent[t] = i => chain'[t] = "none"
  BY <1>4, Zenon DEF Clear
<1>11. \A v \in Workers : proc'[v].intent # i => proc'[v] = proc[v]
  BY <1>6, Zenon
<1> QED
  BY <1>1, <1>4, <1>5, <1>7, <1>8, <1>9, <1>10, <1>11, ChainSend, Zenon

\* A transaction that is mined was on the chain before.
LEMMA MineSends ==
    ASSUME PipelineInv, LeaseInv, SendInv, NEW t \in Txs, MineStep(t)
    PROVE  SendInv'
<1>1. PICK i \in Intents : TxIntent[t] = i
  BY TermsAssumption, Zenon
<1>2. /\ relay' = relay /\ attempt' = attempt /\ reservation' = reservation /\ proc' = proc
      /\ chain[t] = "pending"
  BY Zenon DEF MineStep, Mine, fenceVars, ledgerVars
<1>3. PICK outcome \in (IF Paid(TxIntent[t]) THEN {} ELSE {"success"}) \cup
                       (IF Paid(TxIntent[t]) \/ "revert" \in Faults THEN {"reverted"} ELSE {}) :
         chain' = [chain EXCEPT ![t] = outcome]
  BY Zenon DEF MineStep, Mine
<1>4. chain \in [Txs -> {"none", "pending", "success", "reverted"}] /\ outcome # "none"
  BY <1>3, Zenon DEF PipelineInv, PipelineTypeOK
<1>5. chain'[t] # "none" /\ \A u \in Txs \ {t} : chain'[u] = chain[u]
  BY <1>3, <1>4, Zenon
<1>6. OnChain(i) /\ Sent(i) /\ InFlight(i)
  BY <1>1, <1>2, Zenon DEF OnChain, Sent, InFlight
<1>7. ~Relayed(i) /\ \A q \in Procs : <<q, i>> \notin relay'
  BY <1>2, <1>6, Zenon DEF SendInv, SentOnce, Relayed
<1>8. ~Relayed(i)'
  BY <1>7, Zenon DEF Relayed
<1>9. /\ reservation[i].status \in {"reserved", "submitted", "consumed"}
      /\ attempt[i].status \notin Before
      /\ \A u \in Txs : TxIntent[u] = i /\ chain'[u] # "none" => u = t
  BY <1>1, <1>2, <1>5, <1>6, Zenon DEF SendInv, SentOnce, BudgetLocked
<1>10. \A v \in Workers : proc[v].intent = i => proc[v].pc \notin Unsent \cup Funded \cup {"wait"}
  BY <1>6, UnsentPcs, Zenon DEF SendInv, Sends
<1>11. \A u \in Txs : TxIntent[u] # i => chain'[u] = chain[u]
  BY <1>1, <1>5, Zenon
<1> QED
  BY <1>2, <1>7, <1>8, <1>9, <1>10, <1>11, ChainSend

\* Without callers of the x402 endpoint every step keeps the invariant of
\* what was sent.
LEMMA SendSteps ==
    ASSUME Callers = {}, PipelineInv, LeaseInv, SendInv, [PipelineNext]_vars
    PROVE  SendInv'
<1>0. Procs = Workers
  BY PipelineAssumption, Zenon
<1>1. ASSUME UNCHANGED chainVars, UNCHANGED fenceVars, proc' = proc, reservation' = reservation
      PROVE  SendInv'
  BY <1>1, SendSame, Zenon DEF fenceVars
<1>2. CASE UNCHANGED vars
  BY <1>1, <1>2, Zenon DEF vars, ledgerVars
<1>3. ASSUME NEW w \in Workers, WorkerStep(w) PROVE SendInv'
  BY <1>3, StillSteps, LeaseSends, LedgerSends, ReconcileSends, SettleSends, Zenon
     DEF WorkerStep, CoordinatorStep
<1>4. ASSUME NEW w \in Workers, Timeout(w) \/ \E i \in Intents : RelayStep(w, i) PROVE SendInv'
  BY <1>4, StillSteps, BroadcastSends, DropSends, Zenon DEF RelayStep
<1>5. CASE ReaderStep \/ MarketStep \/ PlayerStep
  <2>1. /\ UNCHANGED chainVars /\ UNCHANGED fenceVars /\ proc' = proc /\ reservation' = reservation
    BY <1>5, Zenon DEF ReaderStep, ReaderScan, ReaderTarget, ReaderRevert, ReaderConfirm,
         ReaderCommit, ReaderFrame, MarketStep, PlayerStep, create_mandate, revoke_mandate, ledgerVars
  <2> QED
    BY <1>1, <2>1, Zenon
<1>6. CASE LeaseExpires
  <2>1. UNCHANGED chainVars /\ proc' = proc /\ reservation' = reservation
    BY <1>6, Zenon DEF LeaseExpires, ledgerVars
  <2>2. attempt' = attempt \/ \E i \in Intents : ExpireAttempt(i)
    BY <1>6, Zenon DEF LeaseExpires, ExpireFence
  <2>3. \A j \in Intents : attempt'[j].status \in Before => attempt[j].status \in Before
    <3>1. attempt \in [Intents -> AttemptState]
      BY Zenon DEF LeaseInv, LeaseTypeOK
    <3>2. ASSUME NEW i \in Intents, ExpireAttempt(i), NEW j \in Intents
          PROVE  attempt'[j].status = attempt[j].status
      BY <3>1, <3>2, Zenon DEF ExpireAttempt, Attempt
    <3> QED
      BY <2>2, <3>2, Zenon
  <2> QED
    BY <2>1, <2>3, SendSame, Zenon
<1>7. CASE Crash
  <2>1. UNCHANGED <<ledgerVars, fenceVars, chainVars>>
    BY <1>7, Zenon DEF Crash
  <2>2. proc' = proc \/ \E w \in Workers : EndCycle(w)
    BY <1>7, Zenon DEF Crash
  <2> QED
    BY <1>1, <2>1, <2>2, StillSteps, Zenon DEF ledgerVars
<1> QED
  BY <1>0, <1>2, <1>3, <1>4, <1>5, <1>6, <1>7, MineSends, Zenon DEF PipelineNext, SettlementNext

\* The invariant holds before anything is done.
LEMMA SendStarts == ASSUME PipelineInit PROVE SendInv
<1>1. relay = {} /\ chain = [t \in Txs |-> "none"] /\ \A w \in Workers : proc[w].pc = "idle"
  BY PipelineAssumption, Zenon DEF PipelineInit, FenceInit, ChainInit, Idle, Local
<1>2. \A i \in Intents : ~Sent(i) /\ ~InFlight(i)
  BY <1>1, Zenon DEF Sent, Relayed, OnChain, InFlight
<1>3. SentOnce
  BY <1>1, <1>2, Zenon DEF SentOnce, Sent
<1>4. Sends /\ BudgetLocked
  BY <1>1, <1>2, Zenon DEF Sends, BudgetLocked, Unsent, Funded
<1> QED
  BY <1>3, <1>4, Zenon DEF SendInv

-----------------------------------------------------------------------------
(* What was written off *)

\* What a step may do to the ledger once every mandate has been created.
Ageing ==
    /\ clock' = clock
    /\ \A m \in Mandates : /\ mandate'[m].status # "absent"
                           /\ mandate'[m].status = "active" => mandate[m].status = "active"
    /\ \A i \in Intents :
          \/ reservation'[i] = reservation[i]
          \/ reservation[i].status \in {"reserved", "submitted"}
          \/ \E m \in Mandates :
                Owner[m] = Buyer[i] /\ mandate[m].status = "active" /\ InWindow(m, clock)

LEMMA DeadStays == ASSUME Ageing, NEW i \in Intents, Dead(i) PROVE Dead(i)'
BY Zenon DEF Ageing, Dead, InWindow

\* The updates of the counters leave the status of a mandate alone.
LEMMA CounterColumns ==
    ASSUME NEW k \in MandateRow, NEW a, NEW b
    PROVE  /\ Reserve(k, a).status = k.status /\ Unreserve(k, a).status = k.status
           /\ Unreserve(Consume(k, a), b).status = k.status
BY DEF MandateRow, Reserve, Unreserve, Consume

\* The calls to the ledger.
LEMMA CallsAge ==
    ASSUME PipelineInv, Mandated, clock' = clock,
           \/ UNCHANGED ledgerVars
           \/ \E m \in Mandates : create_mandate(m) \/ revoke_mandate(m)
           \/ \E m \in Mandates, i \in Intents : ReserveNow(m, i)
           \/ \E i \in Intents, t \in Txs : submit_reservation(i, t)
           \/ \E i \in Intents, why \in Reasons : release_reservation(i, why)
           \/ reconcile_finalized_reservations({i \in Intents : intent[i] \in Confirmed},
                                               {i \in Intents : intent[i] = "reverted"})
    PROVE  Ageing
<1>1. LedgerTypeOK /\ ReservationsGrounded /\ BudgetAccounts /\ WithinBudget
  BY Zenon DEF PipelineInv, LedgerInv
<1>2. ASSUME \A m \in Mandates : mandate'[m].status = mandate[m].status,
             \A i \in Intents : \/ reservation'[i] = reservation[i]
                                \/ reservation[i].status \in {"reserved", "submitted"}
                                \/ \E m \in Mandates : Owner[m] = Buyer[i] /\ mandate[m].status = "active"
                                                       /\ InWindow(m, clock)
      PROVE  Ageing
  BY <1>2, Zenon DEF Ageing, Mandated
<1>3. CASE UNCHANGED ledgerVars
  BY <1>2, <1>3, Zenon DEF ledgerVars
<1>4. ASSUME NEW m \in Mandates, create_mandate(m) \/ revoke_mandate(m) PROVE Ageing
  <2>1. revoke_mandate(m)
    BY <1>4, Zenon DEF create_mandate, Mandated
  <2>2. mandate' = [mandate EXCEPT ![m] = WithStatus(mandate[m], "revoked")] /\ reservation' = reservation
    BY <2>1, Zenon DEF revoke_mandate
  <2>3. WithStatus(mandate[m], "revoked").status = "revoked"
    BY <1>1, Zenon DEF LedgerTypeOK, MandateRow, WithStatus
  <2>4. \A k \in Mandates : mandate'[k] = mandate[k] \/ mandate'[k].status = "revoked"
    BY <1>1, <2>2, <2>3, Zenon DEF LedgerTypeOK
  <2> QED
    BY <2>2, <2>4, Zenon DEF Ageing, Mandated
<1>5. ASSUME NEW m \in Mandates, NEW i \in Intents, ReserveNow(m, i) PROVE Ageing
  <2>1. \A k \in Mandates : mandate'[k].status = mandate[k].status
    BY <1>1, <1>5, CounterColumns DEF ReserveNow, reserve_mandate, LedgerTypeOK
  <2>2. \A j \in Intents \ {i} : reservation'[j] = reservation[j]
    BY <1>1, <1>5, ReservationMoves, Zenon
  <2>3. Owner[m] = Buyer[i] /\ mandate[m].status = "active" /\ InWindow(m, clock)
    BY <1>5, Zenon DEF ReserveNow, reserve_mandate, CanReserve, MandateCovers
  <2> QED
    BY <1>2, <2>1, <2>2, <2>3, Zenon
<1>6. ASSUME NEW i \in Intents, NEW t \in Txs, submit_reservation(i, t) PROVE Ageing
  <2>1. mandate' = mandate
    BY <1>6, Zenon DEF submit_reservation
  <2>2. \A j \in Intents : reservation'[j] = reservation[j] \/ reservation[j].status \in {"reserved", "submitted"}
    BY <1>1, <1>6, ReservationMoves, Zenon
  <2> QED
    BY <1>2, <2>1, <2>2, Zenon
<1>7. ASSUME NEW i \in Intents, NEW why \in Reasons, release_reservation(i, why) PROVE Ageing
  <2>1. \A m \in Mandates : mandate'[m].status = mandate[m].status
    BY <1>1, <1>7, CounterColumns DEF release_reservation, ledgerVars, LedgerTypeOK
  <2>2. \A j \in Intents \ {i} : reservation'[j] = reservation[j]
    BY <1>1, <1>7, ReservationMoves, Zenon
  <2>3. reservation'[i] = reservation[i] \/ reservation[i].status = "reserved"
    BY <1>7, Zenon DEF release_reservation, ledgerVars
  <2> QED
    BY <1>2, <2>1, <2>2, <2>3, Zenon
<1>8. CASE reconcile_finalized_reservations({i \in Intents : intent[i] \in Confirmed},
                                            {i \in Intents : intent[i] = "reverted"})
  <2> DEFINE paid == {i \in Intents : intent[i] \in Confirmed}
             reverted == {i \in Intents : intent[i] = "reverted"}
  <2>1. paid \in SUBSET Intents /\ reverted \in SUBSET (Intents \ paid)
    BY Zenon DEF Confirmed
  <2>2. \A m \in Mandates : mandate'[m].status = mandate[m].status
    BY <1>1, <1>8, CounterColumns DEF reconcile_finalized_reservations, LedgerTypeOK
  <2>3. \A j \in Intents : reservation'[j] = reservation[j] \/ reservation[j].status = "submitted"
    BY <1>8, Zenon DEF reconcile_finalized_reservations
  <2> QED
    BY <1>2, <2>2, <2>3, Zenon
<1> QED
  BY <1>3, <1>4, <1>5, <1>6, <1>7, <1>8, Zenon

\* Every step of the pipeline makes one of these calls, or none.
LEMMA StepAges == ASSUME PipelineInv, Mandated, [PipelineNext]_vars PROVE Ageing
<1>1. ASSUME UNCHANGED ledgerVars, UNCHANGED clock PROVE Ageing
  BY <1>1, CallsAge, Zenon
<1>2. CASE UNCHANGED vars
  BY <1>1, <1>2, Zenon DEF vars
<1>3. ASSUME NEW p \in Procs,
             \/ RecoverSubmit(p) \/ Reconcile(p) \/ ReserveBudget(p) \/ CoordinatorReserve(p)
             \/ CoordinatorRelease(p) \/ SubmitReservation(p) \/ HandlerRelease(p)
      PROVE  Ageing
  <2> DEFINE i == proc[p].intent
  <2>1. clock' = clock
    BY <1>3, Zenon DEF RecoverSubmit, Reconcile, ReserveBudget, CoordinatorReserve, CoordinatorRelease,
         SubmitReservation, HandlerRelease, LedgerOnly
  <2>2. Knows(proc[p], submission, chain)
    BY ProcHand, Zenon
  <2>3. ASSUME proc[p].pc \in {"r_submit", "submit"} PROVE i \in Intents /\ proc[p].tx \in Txs
    BY <2>2, <2>3, Zenon DEF Knows, Between, TxPcs, RecoveryPcs
  <2>4. ASSUME proc[p].pc \in {"reserve", "x_reserve"} PROVE i \in Intents /\ proc[p].mandate \in Mandates
    BY <2>2, <2>4, Zenon DEF Knows, Between, MandatePcs
  <2>5. ASSUME proc[p].pc = "x_release" PROVE i \in Intents /\ proc[p].why \in Reasons
    BY <2>2, <2>5, Zenon DEF Knows, Between
  <2>6. ASSUME proc[p].pc = "h_release"
        PROVE  i \in Intents /\ "automatic_settlement_pre_submission_failed" \in Reasons
    BY <2>2, <2>6, PipelineAssumption, Zenon DEF Knows, Between
  <2>7. CASE RecoverSubmit(p) \/ SubmitReservation(p)
    BY <2>1, <2>3, <2>7, CallsAge, Zenon DEF RecoverSubmit, SubmitReservation, At
  <2>8. CASE ReserveBudget(p) \/ CoordinatorReserve(p)
    BY <2>1, <2>4, <2>8, CallsAge, Zenon DEF ReserveBudget, CoordinatorReserve, At
  <2>9. CASE CoordinatorRelease(p)
    BY <2>1, <2>5, <2>9, CallsAge, Zenon DEF CoordinatorRelease, At
  <2>10. CASE HandlerRelease(p)
    BY <2>1, <2>6, <2>10, CallsAge, Zenon DEF HandlerRelease, At
  <2>11. CASE Reconcile(p)
    BY <2>1, <2>11, CallsAge, Zenon DEF Reconcile
  <2> QED
    BY <1>3, <2>7, <2>8, <2>9, <2>10, <2>11, Zenon
<1>4. ASSUME NEW p \in Procs, CoordinatorStep(p) PROVE Ageing
  BY <1>1, <1>3, <1>4, Zenon DEF CoordinatorStep, Verify, Approve, SendSettle, RecordSubmission,
       LocalOnly, ArenaOnly, ChainOnly
<1>5. ASSUME NEW w \in Workers, WorkerStep(w) PROVE Ageing
  <2>1. w \in Procs
    BY PipelineAssumption, Zenon
  <2>2. CASE \/ RecoverFence(w) \/ ClaimAttempt(w) \/ ClaimFence(w) \/ Defer(w) \/ Sign(w)
             \/ MarkSubmitting(w) \/ MarkResult(w) \/ ReleaseFence(w)
             \/ HandlerFence(w) \/ HandlerMark(w)
    BY <1>1, <2>2, Zenon DEF RecoverFence, ClaimAttempt, ClaimFence, Defer, Sign, MarkSubmitting,
         MarkResult, ReleaseFence, HandlerFence, HandlerMark, FenceOnly
  <2>3. CASE \/ StartCycle(w) \/ FindTransaction(w) \/ ScanTargets(w) \/ ReadMandate(w)
             \/ RecoverRecord(w) \/ FailUnmandated(w) \/ FailSettlement(w) \/ HandlerFail(w)
    BY <1>1, <2>3, Zenon DEF StartCycle, FindTransaction, ScanTargets, ReadMandate, RecoverRecord,
         FailUnmandated, FailSettlement, HandlerFail, LocalOnly, ArenaOnly
  <2> QED
    BY <1>3, <1>4, <1>5, <2>1, <2>2, <2>3, Zenon DEF WorkerStep
<1>6. ASSUME NEW p \in Procs, \/ Timeout(p) \/ \E i \in Intents : RelayStep(p, i)
                              \/ \E i \in Intents : ExecuteRequest(p, i)
      PROVE  Ageing
  BY <1>1, <1>6, Zenon DEF Timeout, RelayStep, RelayBroadcast, RelayRefuse, RelayDrop, ExecuteRequest,
       LocalOnly, ChainOnly
<1>7. CASE \/ ReaderStep \/ LeaseExpires \/ Crash \/ MarketStep \/ \E t \in Txs : MineStep(t)
  BY <1>1, <1>7, Zenon DEF ReaderStep, ReaderScan, ReaderTarget, ReaderRevert, ReaderConfirm,
       ReaderCommit, ReaderFrame, LeaseExpires, Crash, MarketStep, MineStep
<1>8. CASE PlayerStep
  BY <1>8, CallsAge, Zenon DEF PlayerStep
<1> QED
  BY <1>2, <1>4, <1>5, <1>6, <1>7, <1>8, PipelineAssumption, Zenon DEF PipelineNext,
       SettlementNext

\* What a step may do to the workers and to the attempts: one worker moves
\* along its control flow, and leaves a deal without a mandate only if it read
\* that there is none.
Works ==
    /\ \A i \in Intents : attempt'[i].status \in Before => attempt[i].status \in Before
    /\ \/ proc' = proc
       \/ \E w \in Workers :
             Flow(w) /\ (proc'[w].pc = "no_mandate" => ActiveMandates(proc'[w].intent, clock) = {})

LEMMA StepWorks ==
    ASSUME Callers = {}, PipelineInv, LeaseInv, [PipelineNext]_vars PROVE Works
<1>0. Procs = Workers /\ \A w \in Workers : w \in Procs
  BY PipelineAssumption, Zenon
<1>1. ASSUME UNCHANGED fenceVars, proc' = proc PROVE Works
  BY <1>1, Zenon DEF Works, fenceVars
<1>2. ASSUME NEW w \in Workers, Flow(w), proc[w].pc # "queue" \/ proc'[w].pc \in Between,
             \A i \in Intents : attempt'[i].status \in Before => attempt[i].status \in Before
      PROVE  Works
  <2>1. proc'[w].pc # "no_mandate"
    BY <1>2, Zenon DEF Flow, Edge, Between
  <2> QED
    BY <1>2, <2>1, Zenon DEF Works
<1>3. ASSUME NEW w \in Workers, UNCHANGED fenceVars,
             \/ StartCycle(w) \/ FindTransaction(w) \/ ScanTargets(w) \/ ReadMandate(w)
      PROVE  Works
  <2>1. Flow(w) /\ (proc'[w].pc = "no_mandate" => ActiveMandates(proc'[w].intent, clock) = {})
    BY <1>0, <1>3, StartFlows, Zenon
  <2> QED
    BY <1>3, <2>1, Zenon DEF Works, fenceVars
<1>4. ASSUME NEW w \in Workers, EndCycle(w), UNCHANGED fenceVars PROVE Works
  <2>1. Flow(w) /\ proc'[w].pc \in Between
    BY <1>0, <1>4, EndFlows, BackAt, Zenon
  <2> QED
    BY <1>2, <1>4, <2>1, Zenon DEF fenceVars
<1>5. ASSUME NEW w \in Workers,
             \/ RecoverFence(w) \/ ClaimAttempt(w) \/ ClaimFence(w) \/ Defer(w) \/ Sign(w)
             \/ MarkSubmitting(w) \/ MarkResult(w) \/ ReleaseFence(w)
             \/ HandlerFence(w) \/ HandlerMark(w)
      PROVE  Works
  <2>1. Flow(w)
    BY <1>0, <1>5, LeaseFlows, Zenon
  <2>2. proc[w].pc # "queue"
    BY <1>5, Zenon DEF RecoverFence, ClaimAttempt, ClaimFence, Defer, Sign, MarkSubmitting,
         MarkResult, ReleaseFence, HandlerFence, HandlerMark, At
  <2>3. \A i \in Intents : attempt'[i].status \in Before => attempt[i].status \in Before
    BY <1>5, BegunStays, Zenon
  <2> QED
    BY <1>2, <2>1, <2>2, <2>3, Zenon
<1>6. ASSUME NEW w \in Workers,
             \/ RecoverSubmit(w) \/ RecoverRecord(w) \/ FailUnmandated(w)
             \/ ReserveBudget(w) \/ CoordinatorReserve(w) \/ Verify(w) \/ CoordinatorRelease(w)
             \/ Approve(w) \/ SendSettle(w) \/ RecordSubmission(w) \/ SubmitReservation(w)
             \/ FailSettlement(w) \/ HandlerRelease(w) \/ HandlerFail(w) \/ Timeout(w)
      PROVE  Works
  <2>1. Flow(w)
    BY <1>6, CallFlows, Zenon DEF LeaseInv
  <2>2. proc[w].pc # "queue"
    BY <1>6, Zenon DEF RecoverSubmit, RecoverRecord, FailUnmandated, ReserveBudget, CoordinatorReserve,
         Verify, CoordinatorRelease, Approve, SendSettle, RecordSubmission, SubmitReservation,
         FailSettlement, HandlerRelease, HandlerFail, Timeout, At
  <2>3. UNCHANGED fenceVars
    BY <1>6, Zenon DEF RecoverSubmit, RecoverRecord, FailUnmandated, ReserveBudget,
         CoordinatorReserve, Verify, CoordinatorRelease, Approve, SendSettle, RecordSubmission,
         SubmitReservation, FailSettlement, HandlerRelease, HandlerFail, Timeout,
         LedgerOnly, ArenaOnly, LocalOnly, ChainOnly
  <2> QED
    BY <1>2, <2>1, <2>2, <2>3, Zenon DEF fenceVars
<1>7. ASSUME NEW w \in Workers, WorkerStep(w) \/ Timeout(w) PROVE Works
  <2>1. CASE Reconcile(w)
    BY <1>4, <2>1, Zenon DEF Reconcile, LedgerOnly
  <2>2. CASE StartCycle(w) \/ FindTransaction(w) \/ ScanTargets(w) \/ ReadMandate(w)
    BY <1>3, <2>2, Zenon DEF StartCycle, FindTransaction, ScanTargets, ReadMandate, LocalOnly
  <2> QED
    BY <1>5, <1>6, <1>7, <2>1, <2>2, Zenon DEF WorkerStep, CoordinatorStep
<1>8. ASSUME NEW w \in Workers, NEW i \in Intents, RelayStep(w, i) PROVE Works
  <2>1. UNCHANGED fenceVars
    BY <1>8, Zenon DEF RelayStep, RelayBroadcast, RelayRefuse, RelayDrop, ChainOnly
  <2>2. proc' = proc \/ (Flow(w) /\ proc[w].pc # "queue")
    BY <1>8, RelayFlows, Zenon DEF Waiting, At
  <2> QED
    BY <1>1, <1>2, <2>1, <2>2, Zenon DEF fenceVars
<1>9. CASE UNCHANGED vars \/ ReaderStep \/ MarketStep \/ PlayerStep \/ \E t \in Txs : MineStep(t)
  BY <1>1, <1>9, Zenon DEF vars, ReaderStep, ReaderScan, ReaderTarget, ReaderRevert, ReaderConfirm,
       ReaderCommit, ReaderFrame, MarketStep, PlayerStep, MineStep
<1>10. CASE LeaseExpires
  <2>1. proc' = proc /\ (attempt' = attempt \/ \E i \in Intents : ExpireAttempt(i))
    BY <1>10, Zenon DEF LeaseExpires, ExpireFence
  <2>2. attempt \in [Intents -> AttemptState]
    BY Zenon DEF LeaseInv, LeaseTypeOK
  <2>3. ASSUME NEW i \in Intents, ExpireAttempt(i), NEW j \in Intents
        PROVE  attempt'[j].status = attempt[j].status
    BY <2>2, <2>3, Zenon DEF ExpireAttempt, Attempt
  <2> QED
    BY <2>1, <2>3, Zenon DEF Works
<1>11. CASE Crash
  BY <1>1, <1>4, <1>11, Zenon DEF Crash
<1> QED
  BY <1>0, <1>7, <1>8, <1>9, <1>10, <1>11, Zenon DEF PipelineNext, SettlementNext

\* An attempt that is over stays so.
LEMMA ClosedStays ==
    ASSUME PipelineInv, LeaseInv, Works, NEW i \in Intents, Closed(i) PROVE Closed(i)'
<1> DEFINE Acting == Funded \cup {"x_reserve"}
<1>1. attempt'[i].status \notin Before
  BY Zenon DEF Works, Closed
<1>2. ASSUME NEW v \in Workers, proc'[v].intent = i, proc'[v].pc \in Acting PROVE FALSE
  <2>1. CASE proc'[v] = proc[v]
    BY <1>2, <2>1, Zenon DEF Closed
  <2>2. CASE proc'[v] # proc[v]
    <3>1. Flow(v)
      BY <2>2, PipelineAssumption, Zenon DEF Works, Flow
    <3>2. proc[v].intent = i /\ proc[v].pc \in Acting \cup {"mark_submitting"}
      BY <1>2, <3>1, Zenon DEF Flow, Edge, Fresh, Between, Funded
    <3>3. proc[v].pc = "mark_submitting"
      BY <3>2, Zenon DEF Closed
    <3>4. attempt[i].status \in Before
      BY <3>2, <3>3, WorkerHand, Zenon DEF Leased, Preparing, Between, Before
    <3> QED
      BY <3>4, Zenon DEF Closed
  <2> QED
    BY <2>1, <2>2, Zenon
<1> QED
  BY <1>1, <1>2, Zenon DEF Closed

\* Only a worker that gives a deal up records that it failed.
LEMMA NewFailures ==
    ASSUME PipelineInv, [PipelineNext]_vars, NEW i \in Intents,
           intent[i] # "authorization_failed", intent'[i] = "authorization_failed"
    PROVE  /\ intent[i] = "authorization_requested"
           /\ \E w \in Workers : proc[w].intent = i /\ proc[w].pc \in {"no_mandate", "fail", "h_fail"}
           /\ UNCHANGED chainVars
<1>1. intent \in [Intents -> IntentStatus]
  BY Zenon DEF PipelineInv, ArenaInv, ArenaTypeOK
<1>2. ASSUME NEW w \in Workers, NEW j \in Intents, proc[w].intent = j, record_automatic_failure(j)
      PROVE  i = j /\ intent[i] = "authorization_requested"
  <2>1. intent' = [intent EXCEPT ![j] = "authorization_failed"] /\ CanRecordFailure(j)
    BY <1>2, Zenon DEF record_automatic_failure
  <2> QED
    BY <1>1, <2>1, Zenon DEF CanRecordFailure
<1>3. ASSUME NEW w \in Workers, FailUnmandated(w) \/ FailSettlement(w) \/ HandlerFail(w)
      PROVE  /\ intent[i] = "authorization_requested"
             /\ proc[w].intent = i /\ proc[w].pc \in {"no_mandate", "fail", "h_fail"}
             /\ UNCHANGED chainVars
  <2>1. proc[w].pc \in {"no_mandate", "fail", "h_fail"} /\ UNCHANGED chainVars
    BY <1>3, Zenon DEF FailUnmandated, FailSettlement, HandlerFail, At, ArenaOnly
  <2>2. proc[w].intent \in Intents
    BY <2>1, PipelineAssumption, Zenon DEF PipelineInv, InHand, Knows, Between
  <2>3. record_automatic_failure(proc[w].intent) \/ UNCHANGED arenaVars
    BY <1>3, Zenon DEF FailUnmandated, FailSettlement, HandlerFail
  <2>4. ~UNCHANGED arenaVars
    BY Zenon DEF arenaVars, intentVars
  <2> QED
    BY <1>2, <2>1, <2>2, <2>3, <2>4, Zenon
<1>4. ASSUME NEW j, NEW s, s # "authorization_failed",
             intent' = intent \/ intent' = [intent EXCEPT ![j] = s]
      PROVE  FALSE
  BY <1>1, <1>4, Zenon
<1>5. CASE UNCHANGED arenaVars
  BY <1>5, Zenon DEF arenaVars, intentVars
<1>6. ASSUME NEW p \in Procs, \/ RecoverRecord(p) \/ Approve(p) \/ RecordSubmission(p) PROVE FALSE
  <2>1. ASSUME NEW j, NEW t, record_settlement_submission(j, t, "sandbox_guest") PROVE FALSE
    BY <1>4, <2>1, Zenon DEF record_settlement_submission
  <2>2. ASSUME NEW j, record_settlement_approval(j, "payment_mandate") PROVE FALSE
    BY <1>4, <2>2, Zenon DEF record_settlement_approval
  <2>3. UNCHANGED arenaVars => FALSE
    BY Zenon DEF arenaVars, intentVars
  <2> QED
    BY <1>6, <2>1, <2>2, <2>3, Zenon DEF RecoverRecord, Approve, RecordSubmission
<1>7. CASE ReaderStep
  BY <1>4, <1>5, <1>7 DEF ReaderStep, ReaderScan, ReaderTarget, ReaderRevert, ReaderConfirm,
       ReaderCommit, record_chain_reverted, record_chain_confirmation, commit_confirmed_inventory
<1>8. CASE MarketStep
  <2>1. ASSUME NEW j \in Intents, Accept(j) PROVE FALSE
    BY <1>4, <2>1, Zenon DEF Accept, FreezeIntent, intentVars
  <2>2. CASE \/ materialize_agent_market_engagements \/ complete_hosted_run \/ advance_round_or_game
             \/ \E j \in Intents : Engage(j) \/ EndNegotiation(j)
    BY <1>4, <2>2, Zenon DEF materialize_agent_market_engagements, complete_hosted_run,
         advance_round_or_game, Engage, EndNegotiation, intentVars
  <2> QED
    BY <1>8, <2>1, <2>2, Zenon DEF MarketStep
<1>9. ASSUME NEW w \in Workers, WorkerStep(w)
      PROVE  \/ UNCHANGED arenaVars
             \/ FailUnmandated(w) \/ FailSettlement(w) \/ HandlerFail(w)
  <2>1. w \in Procs
    BY PipelineAssumption, Zenon
  <2> QED
    BY <1>6, <1>9, <2>1, Zenon DEF WorkerStep, CoordinatorStep, StartCycle, FindTransaction,
       RecoverSubmit, RecoverFence, ScanTargets, Reconcile, ReadMandate, ReserveBudget, ClaimAttempt,
       ClaimFence, Defer, Sign, MarkSubmitting, CoordinatorReserve, Verify, CoordinatorRelease,
       SendSettle, SubmitReservation, MarkResult, ReleaseFence, HandlerFence, HandlerRelease,
       HandlerMark, LedgerOnly, LocalOnly, FenceOnly, ChainOnly
<1>10. ASSUME NEW c \in Callers, CoordinatorStep(c) \/ \E j \in Intents : ExecuteRequest(c, j)
       PROVE  UNCHANGED arenaVars
  <2>1. c \in Procs
    BY PipelineAssumption, Zenon
  <2> QED
    BY <1>6, <1>10, <2>1, Zenon DEF CoordinatorStep, ExecuteRequest, CoordinatorReserve, Verify,
       CoordinatorRelease, SendSettle, SubmitReservation, LedgerOnly, LocalOnly, ChainOnly
<1>11. ASSUME NEW p \in Procs, Timeout(p) \/ \E j \in Intents : RelayStep(p, j)
       PROVE  UNCHANGED arenaVars
  BY <1>11, Zenon DEF Timeout, RelayStep, RelayBroadcast, RelayRefuse, RelayDrop, LocalOnly, ChainOnly
<1>12. CASE UNCHANGED vars \/ LeaseExpires \/ Crash \/ PlayerStep \/ \E t \in Txs : MineStep(t)
  BY <1>5, <1>12, Zenon DEF vars, LeaseExpires, Crash, PlayerStep, MineStep
<1> QED
  BY <1>3, <1>5, <1>7, <1>8, <1>9, <1>10, <1>11, <1>12, Zenon DEF PipelineNext, SettlementNext

\* Only a worker that sends a payment puts it in flight.
LEMMA NewFlights ==
    ASSUME Callers = {}, PipelineInv, [PipelineNext]_vars, NEW i \in Intents,
           ~InFlight(i), InFlight(i)'
    PROVE  \E w \in Workers : proc[w].intent = i /\ proc[w].pc = "settle" /\ intent' = intent
<1>0. Procs = Workers
  BY PipelineAssumption, Zenon
<1>1. CASE UNCHANGED chainVars
  BY <1>1, Zenon DEF chainVars, InFlight
<1>2. ASSUME NEW w \in Workers, SendSettle(w)
      PROVE  proc[w].intent = i /\ proc[w].pc = "settle" /\ intent' = intent
  <2>1. relay' = relay \cup {<<w, proc[w].intent>>} /\ chain' = chain
    BY <1>2, Zenon DEF SendSettle, Send
  <2>2. proc[w].pc = "settle" /\ intent' = intent
    BY <1>2, Zenon DEF SendSettle, At, ChainOnly, arenaVars, intentVars
  <2>3. proc[w].intent = i
    BY <2>1, Zenon DEF InFlight
  <2> QED
    BY <2>2, <2>3, Zenon
<1>3. ASSUME NEW p \in Procs, NEW j \in Intents, RelayRefuse(p, j) \/ RelayDrop(p, j) PROVE FALSE
  <2>1. relay' \subseteq relay /\ chain' = chain
    BY <1>3, Zenon DEF RelayRefuse, RelayDrop, Refuse, Drop
  <2> QED
    BY <2>1, Zenon DEF InFlight
<1>4. ASSUME NEW p \in Procs, NEW j \in Intents, NEW t \in Txs, RelayBroadcast(p, j, t) PROVE FALSE
  <2>1. /\ <<p, j>> \in relay /\ relay' \subseteq relay /\ TxIntent[t] = j
        /\ chain' = [chain EXCEPT ![t] = "pending"]
    BY <1>4, Zenon DEF RelayBroadcast, Broadcast
  <2>2. \A u \in Txs : chain'[u] = chain[u] \/ u = t
    BY <2>1, Zenon DEF PipelineInv, PipelineTypeOK
  <2> QED
    BY <2>1, <2>2, Zenon DEF InFlight
<1>5. ASSUME NEW t \in Txs, MineStep(t) PROVE FALSE
  <2>1. relay' = relay /\ chain[t] = "pending" /\ \E s : chain' = [chain EXCEPT ![t] = s]
    BY <1>5, Zenon DEF MineStep, Mine
  <2>2. \A u \in Txs : chain'[u] = chain[u] \/ u = t
    BY <2>1, Zenon DEF PipelineInv, PipelineTypeOK
  <2> QED
    BY <2>1, <2>2, Zenon DEF InFlight
<1>6. ASSUME NEW w \in Workers, WorkerStep(w) PROVE SendSettle(w) \/ UNCHANGED chainVars
  BY <1>6, Zenon DEF WorkerStep, CoordinatorStep, StartCycle, FindTransaction, RecoverSubmit,
     RecoverRecord, RecoverFence, ScanTargets, Reconcile, ReadMandate, FailUnmandated, ReserveBudget,
     ClaimAttempt, ClaimFence, Defer, Sign, MarkSubmitting, CoordinatorReserve, Verify,
     CoordinatorRelease, Approve, RecordSubmission, SubmitReservation, FailSettlement, MarkResult,
     ReleaseFence, HandlerFence, HandlerRelease, HandlerMark, HandlerFail,
     LedgerOnly, LocalOnly, FenceOnly, ArenaOnly
<1>7. CASE \/ UNCHANGED vars \/ LeaseExpires \/ Crash \/ PlayerStep \/ MarketStep \/ ReaderStep
           \/ \E p \in Procs : Timeout(p)
  BY <1>1, <1>7, Zenon DEF vars, LeaseExpires, Crash, PlayerStep, MarketStep, ReaderStep, ReaderScan,
     ReaderTarget, ReaderRevert, ReaderConfirm, ReaderCommit, ReaderFrame, Timeout, LocalOnly
<1> QED
  BY <1>0, <1>1, <1>2, <1>3, <1>4, <1>5, <1>6, <1>7, Zenon DEF PipelineNext, SettlementNext,
       RelayStep

\* A deal is given up when nothing was sent for it, and nothing will be.
LEMMA GivenUp ==
    ASSUME PipelineInv, LeaseInv, SendInv, WriteOffInv, NEW w \in Workers, NEW i \in Intents,
           proc[w].intent = i, proc[w].pc \in {"no_mandate", "fail", "h_fail"},
           intent[i] = "authorization_requested"
    PROVE  (Dead(i) \/ Closed(i)) /\ ~InFlight(i)
<1>1. CASE proc[w].pc = "no_mandate"
  <2>1. Dead(i)
    BY <1>1, Zenon DEF WriteOffInv
  <2>2. ASSUME InFlight(i) PROVE FALSE
    <3>1. reservation[i].status = "consumed"
      BY <2>1, <2>2, Zenon DEF SendInv, BudgetLocked, Dead
    <3>2. submission[i].tx # NoTx
      BY <3>1 DEF PipelineInv, LedgerInv, ReservationsGrounded, DealBooks
    <3> QED
      BY <3>2, Zenon DEF PipelineInv, ArenaInv, EvidenceComplete, Submitted
  <2> QED
    BY <2>1, <2>2, Zenon
<1>2. CASE proc[w].pc \in {"fail", "h_fail"}
  <2>1. ~InFlight(i)
    BY <1>2, FlightSent, Zenon DEF SendInv, Sends, Unsent
  <2>2. attempt[i].status \in {"submitting", "failed"}
    BY <1>2, WorkerHand, Zenon DEF Leased, Executing, Between
  <2>3. ASSUME NEW v \in Workers, proc[v].intent = i, proc[v].pc \in Funded \cup {"x_reserve"} PROVE FALSE
    <3>1. proc[v].pc \in Executing /\ v # w
      BY <1>2, <2>3, Zenon DEF Funded, Executing
    <3>2. proc[w].pc \in Executing \cup {"h_fail"}
      BY <1>2, Zenon DEF Executing
    <3> QED
      BY <2>3, <3>1, <3>2, Alone, Zenon
  <2> QED
    BY <2>1, <2>2, <2>3, Zenon DEF Closed, Before
<1> QED
  BY <1>1, <1>2, Zenon

\* A buyer without a mandate for the deal has none to come.
LEMMA NoneActive ==
    ASSUME PipelineInv, NEW i \in Intents, ActiveMandates(i, clock) = {} PROVE Dead(i)
<1>1. reservation[i].status # "none" => reservation[i].mandate \in Mandates /\ Owner[reservation[i].mandate] = Buyer[i]
  BY Zenon DEF PipelineInv, LedgerInv, LedgerTypeOK, ReservationRow, ReservationsGrounded
<1>2. reservation[i].status \notin {"reserved", "submitted"}
  BY <1>1, Zenon DEF ActiveMandates
<1>3. \A m \in Mandates : Owner[m] = Buyer[i] => ~(mandate[m].status = "active" /\ InWindow(m, clock))
  BY Zenon DEF ActiveMandates
<1> QED
  BY <1>2, <1>3, Zenon DEF Dead

LEMMA WriteOffSteps ==
    ASSUME Callers = {}, PipelineInv, PipelineInv', LeaseInv, SendInv, WriteOffInv, [PipelineNext]_vars
    PROVE  WriteOffInv'
<1>1. Ageing
  BY StepAges, Zenon DEF WriteOffInv
<1>2. Works
  BY StepWorks, Zenon
<1>3. Mandated'
  BY <1>1, Zenon DEF Ageing, Mandated
<1>4. ASSUME NEW v \in Workers, proc'[v].pc = "no_mandate"
      PROVE  \E i \in Intents : proc'[v].intent = i /\ Dead(i)'
  <2>1. PICK i \in Intents : proc'[v].intent = i
    BY <1>4, PipelineAssumption, Zenon DEF PipelineInv, InHand, Knows, Between
  <2>2. Dead(i)
    <3>1. CASE proc'[v] = proc[v]
      BY <1>4, <2>1, <3>1, Zenon DEF WriteOffInv
    <3>2. CASE proc'[v] # proc[v]
      BY <1>2, <1>4, <2>1, <3>2, NoneActive, PipelineAssumption, Zenon DEF Works, Flow
    <3> QED
      BY <3>1, <3>2, Zenon
  <2> QED
    BY <1>1, <2>1, <2>2, DeadStays, Zenon
<1>5. (\A w \in Workers : proc[w].pc = "no_mandate" => Dead(proc[w].intent))'
  BY <1>4, Zenon DEF Dead
<1>6. ASSUME NEW i \in Intents, intent'[i] = "authorization_failed"
      PROVE  (Dead(i)' \/ Closed(i)') /\ ~InFlight(i)'
  <2>1. CASE intent[i] = "authorization_failed"
    <3>1. (Dead(i) \/ Closed(i)) /\ ~InFlight(i)
      BY <2>1, Zenon DEF WriteOffInv
    <3>2. ASSUME InFlight(i)' PROVE FALSE
      <4>1. PICK w \in Workers : proc[w].intent = i /\ proc[w].pc = "settle"
        BY <3>1, <3>2, NewFlights, Zenon
      <4>2. reservation[i].status = "reserved"
        BY <4>1, Zenon DEF SendInv, Sends, Funded
      <4> QED
        BY <3>1, <4>1, <4>2, Zenon DEF Dead, Closed, Funded
    <3> QED
      BY <1>1, <1>2, <3>1, <3>2, DeadStays, ClosedStays, Zenon
  <2>2. CASE intent[i] # "authorization_failed"
    <3>1. (Dead(i) \/ Closed(i)) /\ ~InFlight(i) /\ UNCHANGED chainVars
      BY <1>6, <2>2, NewFailures, GivenUp, Zenon
    <3>2. InFlight(i)' = InFlight(i)
      BY <3>1, Zenon DEF InFlight, chainVars
    <3> QED
      BY <1>1, <1>2, <3>1, <3>2, DeadStays, ClosedStays, Zenon
  <2> QED
    BY <2>1, <2>2, Zenon
<1> QED
  BY <1>3, <1>5, <1>6, Zenon DEF WriteOffInv

LEMMA WriteOffStarts == ASSUME PipelineInit, InitialMandates = Mandates PROVE WriteOffInv
<1>1. /\ \A m \in Mandates : mandate[m].status = "active"
      /\ \A i \in Intents : intent[i] = "none"
      /\ \A w \in Workers : proc[w].pc = "idle"
  <2>1. NoMandateRow \in MandateRow
    BY DEF NoMandateRow, MandateRow
  <2>2. WithStatus(NoMandateRow, "active").status = "active"
    BY <2>1, Zenon DEF MandateRow, WithStatus
  <2> QED
    BY <2>2, PipelineAssumption, Zenon DEF PipelineInit, ArenaInit, Idle, Local
<1> QED
  BY <1>1, Zenon DEF WriteOffInv, Mandated
=============================================================================
