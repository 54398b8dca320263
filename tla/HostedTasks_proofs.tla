-------------------------- MODULE HostedTasks_proofs --------------------------
(***************************************************************************)
(* Proofs about HostedTasks, for any tasks, workers and coroutines.        *)
(***************************************************************************)
EXTENDS HostedTasks, TLAPS

-----------------------------------------------------------------------------
(* The first result wins *)

\* A task has a result exactly when it is terminal, and only a task that is
\* held has a running lease.  This is what makes a recorded result final: the
\* sink is the only step that could replace it, and looks for it first.
ResultInv ==
    /\ task \in [Tasks -> TaskRow]
    /\ result \in [Tasks -> ResultRow]
    /\ \A t \in Tasks :
        /\ task[t].status \in Terminal <=> result[t] # NoResult
        /\ task[t].live => task[t].status \in Held

\* Init establishes ResultInv: no task exists.
LEMMA ResultInit == Init => ResultInv
  BY DEF Init, ResultInv, NoRow, NoResult, TaskRow, ResultRow, Open, Terminal, Held, MaxAttempts

\* A recorded result: the row of one open task and its result change together.
LEMMA RecordStep ==
  ASSUME ResultInv, NEW t \in Tasks, task[t].status \in Open,
         NEW status \in Terminal, NEW res \in ResultRow, res # NoResult,
         Record(t, status, res)
  PROVE  /\ ResultInv'
         /\ \A u \in Tasks : result[u] # NoResult => task'[u] = task[u] /\ result'[u] = result[u]
<1>1. task[t].status \notin Terminal /\ result[t] = NoResult
  BY Zenon DEF ResultInv, Open, Terminal
<1> DEFINE row == [task[t] EXCEPT !.status = status, !.owner = NoWorker, !.live = FALSE]
<1>a. task[t] \in TaskRow
  BY Zenon DEF ResultInv
<1>b. row \in TaskRow /\ row.status = status /\ row.live = FALSE
  BY <1>a, Zenon DEF TaskRow
<1>c. task' = [task EXCEPT ![t] = row]
  BY Zenon DEF Record
<1> HIDE DEF row
<1>2. task' \in [Tasks -> TaskRow] /\ result' \in [Tasks -> ResultRow]
  BY <1>b, <1>c DEF ResultInv, Record
<1>3. \A u \in Tasks \ {t} : task'[u] = task[u] /\ result'[u] = result[u]
  BY <1>c, Zenon DEF ResultInv, Record
<1>4. task'[t].status = status /\ task'[t].live = FALSE /\ result'[t] = res
  BY <1>b, <1>c, Zenon DEF ResultInv, Record
<1>5. ASSUME NEW u \in Tasks
      PROVE  /\ task'[u].status \in Terminal <=> result'[u] # NoResult
             /\ task'[u].live => task'[u].status \in Held
  <2>1. CASE u = t
    BY <2>1, <1>4, Zenon
  <2>2. CASE u # t
    BY <2>2, <1>3, Zenon DEF ResultInv
  <2> QED  BY <2>1, <2>2
<1>6. ResultInv'
  BY <1>2, <1>5, Zenon DEF ResultInv, NoResult
<1> QED  BY <1>1, <1>3, <1>6, Zenon

\* The default result of the deadline is one.
LEMMA DefaultStep ==
  ASSUME ResultInv, NEW t \in Tasks, task[t].status \in Open, RecordDefault(t)
  PROVE  /\ ResultInv'
         /\ \A u \in Tasks : result[u] # NoResult => task'[u] = task[u] /\ result'[u] = result[u]
<1> DEFINE res == [digest |-> "default", status |-> "failed", apply |-> "pending"]
<1>1. res \in ResultRow /\ res # NoResult
  BY Zenon DEF ResultRow, NoResult
<1>2. Record(t, "defaulted", res)
  BY Zenon DEF RecordDefault
<1>3. "defaulted" \in Terminal
  BY Zenon DEF Terminal
<1> HIDE DEF res
<1> QED  BY <1>1, <1>2, <1>3, RecordStep, Zenon

\* A submission records a first result or changes nothing.
LEMMA SubmitStep ==
  ASSUME ResultInv, NEW s \in Slots, job[s].task \in Tasks,
         NEW digest \in {"run", "preflight", "recovery"}, NEW status \in {"succeeded", "failed"},
         submit_hosted_agent_task_result(s, digest, status)
  PROVE  /\ ResultInv'
         /\ \A u \in Tasks : result[u] # NoResult => task'[u] = task[u] /\ result'[u] = result[u]
<1> DEFINE t == job[s].task
           res == [digest |-> digest, status |-> status, apply |-> "pending"]
           final == IF status = "succeeded" THEN "completed" ELSE "defaulted"
<1>1. CASE UNCHANGED <<task, result>>
  BY <1>1, Zenon DEF ResultInv, NoResult
<1>2. CASE task[t].status \in Open /\ RecordDefault(t)
  BY <1>2, DefaultStep, Zenon
<1>3. CASE task[t].status \in Open /\ Record(t, final, res)
  <2>1. res \in ResultRow /\ res # NoResult
    BY Zenon DEF ResultRow, NoResult
  <2>2. final \in Terminal
    BY Zenon DEF Terminal
  <2> HIDE DEF res, final
  <2> QED  BY <1>3, <2>1, <2>2, RecordStep, Zenon
<1>4. Running(t, WorkerOf[s]) => task[t].status \in Open
  BY Zenon DEF Running, Leased, Held, Open
<1> QED
  BY <1>1, <1>2, <1>3, <1>4, Zenon DEF submit_hosted_agent_task_result, submit_agent_task_result

-----------------------------------------------------------------------------
(* What a coroutine may be about to do *)

\* The steps that lead to a request for the model, which have a number.
Numbered == {"execute", "load", "start", "mark", "call"}

\* A coroutine that is not idle has a task, one on its way to the model has
\* the number of an attempt, and one that submits has an outcome.  (Nothing
\* is said of the memory version, which a fold computes.)
JobOK(j) ==
    /\ j = At(j.pc, j.task, j.number, j.version, j.status)
    /\ j.pc \in {"idle"} \cup Claiming \cup Active
    /\ j.pc # "idle" => j.task \in Tasks
    /\ j.pc \in Numbered => j.number \in Numbers
    /\ j.pc = "submit" => j.status \in {"succeeded", "failed"}

JobInv ==
    /\ job = [s \in Slots |-> job[s]]
    /\ \A s \in Slots : JobOK(job[s])

LEMMA IdleOK == JobOK(Idle)
BY Zenon DEF JobOK, Idle, At, Claiming, Active, Numbered

\* Init establishes JobInv: every coroutine is free.
LEMMA JobInit == Init => JobInv
<1> SUFFICES ASSUME Init PROVE JobInv
  BY Zenon
<1>1. \A s \in Slots : job[s] = Idle
  BY Zenon DEF Init
<1> QED  BY <1>1, IdleOK, Zenon DEF Init, JobInv

\* One coroutine moves on.
LEMMA JobUpdate ==
  ASSUME JobInv, NEW s \in Slots, NEW j, JobOK(j), job' = [job EXCEPT ![s] = j]
  PROVE  JobInv' /\ job'[s] = j /\ \A x \in Slots \ {s} : job'[x] = job[x]
<1>1. job'[s] = j /\ \A x \in Slots \ {s} : job'[x] = job[x]
  BY Zenon DEF JobInv
<1>2. job' = [x \in Slots |-> job'[x]]
  BY Zenon DEF JobInv
<1>3. \A x \in Slots : JobOK(job'[x])
  BY <1>1, Zenon DEF JobInv
<1>4. JobInv'
  BY <1>2, <1>3, Zenon DEF JobInv, JobOK
<1> QED  BY <1>1, <1>4, Zenon

\* A coroutine goes on to the next step of its task.
LEMMA NextPc ==
  ASSUME NEW j, JobOK(j), j.pc # "idle", NEW pc \in (Claiming \cup Active) \ {"submit"},
         pc \in Numbered => j.number \in Numbers
  PROVE  LET k == [j EXCEPT !.pc = pc]
         IN  JobOK(k) /\ k.pc = pc /\ k.task = j.task /\ k.number = j.number
<1>1. [j EXCEPT !.pc = pc] = At(pc, j.task, j.number, j.version, j.status)
  BY DEF JobOK, At
<1>2. pc # "idle"
  BY Zenon DEF Claiming, Active
<1> QED  BY <1>1, <1>2, Zenon DEF JobOK, At

\* A job written out in full.
LEMMA FreshJob ==
  ASSUME NEW t \in Tasks, NEW pc \in Claiming \cup Active, NEW n, NEW v, NEW status,
         pc \in Numbered => n \in Numbers, pc = "submit" => status \in {"succeeded", "failed"}
  PROVE  LET k == At(pc, t, n, v, status)
         IN  JobOK(k) /\ k.pc = pc /\ k.task = t /\ k.number = n
<1>1. pc # "idle"
  BY Zenon DEF Claiming, Active
<1> QED  BY <1>1, Zenon DEF JobOK, At

\* What every other coroutine is about to do stays the same.
OnlyMoves(s) == \A x \in Slots \ {s} : job'[x] = job[x]

\* A coroutine ends.
LEMMA EndsMove ==
  ASSUME JobInv, NEW s \in Slots, Ends(s)
  PROVE  JobInv' /\ OnlyMoves(s) /\ job'[s] = Idle
BY JobUpdate, IdleOK, Zenon DEF Ends, OnlyMoves

\* The context is loaded, or the coroutine ends.
LEMMA LoadMove ==
  ASSUME JobInv, NEW s \in Slots, load_hosted_agent_runtime_context(s)
  PROVE  /\ JobInv' /\ OnlyMoves(s)
         /\ \/ job'[s] = Idle
            \/ job'[s].pc = "start" /\ job'[s].task = job[s].task /\ job'[s].number = job[s].number
<1>1. CASE Ends(s)
  BY <1>1, EndsMove, Zenon
<1>2. ASSUME NEW v, Continues(s, At("start", job[s].task, job[s].number, v, "none"))
      PROVE  /\ JobInv' /\ OnlyMoves(s)
             /\ job'[s].pc = "start" /\ job'[s].task = job[s].task
             /\ job'[s].number = job[s].number
  <2>1. job[s].task \in Tasks /\ job[s].number \in Numbers
    BY Zenon DEF JobInv, JobOK, Numbered, load_hosted_agent_runtime_context
  <2>2. "start" \in Claiming \cup Active
    BY Zenon DEF Active
  <2>3. JobOK(At("start", job[s].task, job[s].number, v, "none"))
    BY <2>1, <2>2, FreshJob, Zenon
  <2>4. job' = [job EXCEPT ![s] = At("start", job[s].task, job[s].number, v, "none")]
    BY <1>2, Zenon DEF Continues
  <2>5. JobInv' /\ OnlyMoves(s) /\ job'[s] = At("start", job[s].task, job[s].number, v, "none")
    BY <2>3, <2>4, JobUpdate, Zenon DEF OnlyMoves
  <2> QED  BY <2>5 DEF At
<1> QED  BY <1>1, <1>2, Zenon DEF load_hosted_agent_runtime_context

\* The preflight checks fail.
LEMMA PreflightMove ==
  ASSUME JobInv, NEW s \in Slots, PreflightFails(s)
  PROVE  JobInv' /\ OnlyMoves(s) /\ job'[s].pc = "preflight"
<1> DEFINE j == At("preflight", job[s].task, 0, 0, "none")
<1>1. job[s].task \in Tasks
  BY Zenon DEF JobInv, JobOK, PreflightFails
<1>2. "preflight" \in Claiming \cup Active /\ "preflight" \notin Numbered
  BY Zenon DEF Active, Numbered
<1>3. JobOK(j) /\ j.pc = "preflight"
  BY <1>1, <1>2, FreshJob
<1>4. job' = [job EXCEPT ![s] = j]
  BY Zenon DEF PreflightFails, Continues
<1> HIDE DEF j
<1> QED  BY <1>3, <1>4, JobUpdate, Zenon DEF OnlyMoves

\* A coroutine goes on with its attempt.
LEMMA GoesMove ==
  ASSUME JobInv, NEW s \in Slots, job[s].pc \in Numbered, NEW pc \in {"mark", "call"}, Goes(s, pc)
  PROVE  /\ JobInv' /\ OnlyMoves(s)
         /\ job'[s].pc = pc /\ job'[s].task = job[s].task /\ job'[s].number = job[s].number
<1> DEFINE j == [job[s] EXCEPT !.pc = pc]
<1>1. JobOK(job[s]) /\ job[s].pc # "idle" /\ job[s].number \in Numbers
  BY Zenon DEF JobInv, JobOK, Numbered
<1>2. pc \in (Claiming \cup Active) \ {"submit"}
  BY Zenon DEF Active
<1>3. JobOK(j) /\ j.pc = pc /\ j.task = job[s].task /\ j.number = job[s].number
  BY <1>1, <1>2, NextPc, Zenon
<1>4. job' = [job EXCEPT ![s] = j]
  BY Zenon DEF Goes, Continues
<1> HIDE DEF j
<1> QED  BY <1>3, <1>4, JobUpdate, Zenon DEF OnlyMoves

\* The patch is staged, or not, and the answer submitted.
LEMMA StageMove ==
  ASSUME JobInv, NEW s \in Slots, stage_hosted_agent_memory_patch(s)
  PROVE  JobInv' /\ OnlyMoves(s) /\ job'[s].pc = "submit"
<1> DEFINE j == At("submit", job[s].task, 0, 0, "succeeded")
<1>1. job[s].task \in Tasks
  BY Zenon DEF JobInv, JobOK, stage_hosted_agent_memory_patch
<1>2. "submit" \in Claiming \cup Active /\ "submit" \notin Numbered
  BY Zenon DEF Active, Numbered
<1>3. JobOK(j) /\ j.pc = "submit"
  BY <1>1, <1>2, FreshJob
<1>4. job' = [job EXCEPT ![s] = j]
  BY Zenon DEF stage_hosted_agent_memory_patch, Continues
<1> HIDE DEF j
<1> QED  BY <1>3, <1>4, JobUpdate, Zenon DEF OnlyMoves

\* The model run ends: a retry is one number on, and only after a failure.
LEMMA CompleteMove ==
  ASSUME JobInv, NEW s \in Slots, NEW outcome \in {"succeeded", "invalid", "failed", "unknown"},
         complete_pydantic_agent_task_attempt(s, outcome)
  PROVE  /\ JobInv' /\ OnlyMoves(s)
         /\ \/ job'[s] = Idle
            \/ job'[s].pc = "submit" /\ job'[s].status = "failed"
            \/ job'[s].pc = "stage" /\ outcome = "succeeded" /\ job'[s].task = job[s].task
            \/ /\ job'[s].pc = "load" /\ outcome = "invalid" /\ job'[s].task = job[s].task
               /\ job[s].number = 1 /\ job'[s].number = 2
<1> DEFINE t == job[s].task
           n == job[s].number
           retry == At("load", t, n + 1, 0, "none")
           answer == At("stage", t, 0, job[s].version, "none")
           failure == At("submit", t, 0, 0, "failed")
<1>1. t \in Tasks /\ n \in Numbers
  BY Zenon DEF JobInv, JobOK, Numbered, complete_pydantic_agent_task_attempt
<1>2. CASE Ends(s)
  BY <1>2, EndsMove, Zenon
<1>3. CASE Continues(s, failure)
  <2>1. "submit" \in Claiming \cup Active /\ "submit" \notin Numbered
    BY Zenon DEF Active, Numbered
  <2>2. JobOK(failure) /\ failure.pc = "submit" /\ failure.status = "failed"
    BY <1>1, <2>1, FreshJob, Zenon DEF At
  <2>3. job' = [job EXCEPT ![s] = failure]
    BY <1>3, Zenon DEF Continues
  <2> HIDE DEF failure
  <2> QED  BY <2>2, <2>3, JobUpdate, Zenon DEF OnlyMoves
<1>4. CASE outcome = "succeeded" /\ Continues(s, answer)
  <2>1. "stage" \in Claiming \cup Active /\ "stage" \notin Numbered
    BY Zenon DEF Active, Numbered
  <2>2. JobOK(answer) /\ answer.pc = "stage" /\ answer.task = t
    BY <1>1, <2>1, FreshJob
  <2>3. job' = [job EXCEPT ![s] = answer]
    BY <1>4, Zenon DEF Continues
  <2> HIDE DEF answer
  <2> QED  BY <1>4, <2>2, <2>3, JobUpdate, Zenon DEF OnlyMoves
<1>5. CASE outcome = "invalid" /\ n < MaxAttempts /\ Continues(s, retry)
  <2>1. n = 1 /\ n + 1 = 2 /\ n + 1 \in Numbers
    BY <1>1, <1>5 DEF Numbers, MaxAttempts
  <2>2. "load" \in Claiming \cup Active
    BY Zenon DEF Active
  <2>3. JobOK(retry) /\ retry.pc = "load" /\ retry.task = t /\ retry.number = n + 1
    BY <1>1, <2>1, <2>2, FreshJob
  <2>4. job' = [job EXCEPT ![s] = retry]
    BY <1>5, Zenon DEF Continues
  <2> HIDE DEF retry
  <2> QED  BY <1>5, <2>1, <2>3, <2>4, JobUpdate, Zenon DEF OnlyMoves
<1> QED
  BY <1>2, <1>3, <1>4, <1>5, Zenon DEF complete_pydantic_agent_task_attempt

\* A claim gives free coroutines a task each.
LEMMA ClaimMove ==
  ASSUME JobInv, NEW w \in Workers, NEW S \in SUBSET Tasks, claim_hosted_agent_tasks_v2(w, S)
  PROVE  JobInv' /\ \A x \in Slots : job'[x] = job[x] \/ job'[x].pc = "claimed"
<1> PICK place \in [S -> Free(w)] :
        job' = [s \in Slots |-> IF \E t \in S : place[t] = s
                    THEN At("claimed", CHOOSE t \in S : place[t] = s, 0, 0, "none")
                    ELSE job[s]]
  BY Zenon DEF claim_hosted_agent_tasks_v2
<1>1. "claimed" \in Claiming \cup Active /\ "claimed" \notin Numbered
  BY Zenon DEF Claiming, Numbered
<1>2. ASSUME NEW x \in Slots
      PROVE  JobOK(job'[x]) /\ (job'[x] = job[x] \/ job'[x].pc = "claimed")
  <2>1. CASE \E t \in S : place[t] = x
    <3> DEFINE u == CHOOSE t \in S : place[t] = x
    <3>1. u \in S
      BY <2>1, Zenon
    <3>2. job'[x] = At("claimed", u, 0, 0, "none")
      BY <2>1, Zenon
    <3> HIDE DEF u
    <3>3. u \in Tasks
      BY <3>1, Zenon
    <3> QED  BY <1>1, <3>2, <3>3, FreshJob
  <2>2. CASE ~\E t \in S : place[t] = x
    BY <2>2, Zenon DEF JobInv
  <2> QED  BY <2>1, <2>2
<1>3. job' = [x \in Slots |-> job'[x]]
  BY Zenon
<1>4. JobInv'
  BY <1>2, <1>3 DEF JobInv, JobOK
<1> QED  BY <1>2, <1>4, Zenon

\* A claim that raises, and a crash, free coroutines.
LEMMA FreesMove ==
  ASSUME JobInv, NEW F, job' = [x \in Slots |-> IF x \in F THEN Idle ELSE job[x]]
  PROVE  JobInv' /\ \A x \in Slots : job'[x] = job[x] \/ job'[x] = Idle
<1>1. \A x \in Slots : JobOK(job'[x])
  BY IdleOK, Zenon DEF JobInv
<1>2. job' = [x \in Slots |-> job'[x]]
  BY Zenon
<1>3. JobInv'
  BY <1>1, <1>2, Zenon DEF JobInv, JobOK
<1> QED  BY <1>3, Zenon

LEMMA RaisesMove ==
  ASSUME JobInv, NEW s \in Slots, ClaimRaises(s)
  PROVE  JobInv' /\ \A x \in Slots : job'[x] = job[x] \/ job'[x] = Idle
<1> DEFINE F == {x \in Slots : x \in SlotsOf(WorkerOf[s]) /\ job[x].pc \in Claiming}
<1>1. job' = [x \in Slots |-> IF x \in F THEN Idle ELSE job[x]]
  BY Zenon DEF ClaimRaises
<1> HIDE DEF F
<1> QED  BY <1>1, FreesMove, Zenon

LEMMA CrashMove ==
  ASSUME JobInv, NEW w \in Workers, Crash(w)
  PROVE  JobInv' /\ \A x \in Slots : job'[x] = job[x] \/ job'[x] = Idle
BY FreesMove, Zenon DEF Crash

\* One job per coroutine.
Jobs(f) == f = [x \in Slots |-> f[x]] /\ \A x \in Slots : JobOK(f[x])

\* A launch moves prepared coroutines on, with their task and their number.
LEMMA LaunchMove ==
  ASSUME NEW w, NEW f, Jobs(f), job' = Launch(w, f)
  PROVE  /\ JobInv'
         /\ \A x \in Slots :
             \/ job'[x] = f[x]
             \/ job'[x].pc = "report"
             \/ /\ f[x].pc = "execute" /\ job'[x].pc = "load"
                /\ job'[x].task = f[x].task /\ job'[x].number = f[x].number
<1> USE DEF Jobs
<1>1. CASE job' = f
  BY <1>1, Zenon DEF JobInv, JobOK
<1>2. CASE job' = [s \in Slots |-> CASE s \in SlotsOf(w) /\ f[s].pc = "execute"
                                -> [f[s] EXCEPT !.pc = "load"]
                            [] s \in SlotsOf(w) /\ f[s].pc = "recover"
                                -> [f[s] EXCEPT !.pc = "report"]
                            [] OTHER -> f[s]]
  <2>1. ASSUME NEW x \in Slots
        PROVE  /\ JobOK(job'[x])
               /\ \/ job'[x] = f[x]
                  \/ job'[x].pc = "report"
                  \/ /\ f[x].pc = "execute" /\ job'[x].pc = "load"
                     /\ job'[x].task = f[x].task /\ job'[x].number = f[x].number
    <3>1. CASE f[x].pc = "execute" /\ job'[x] = [f[x] EXCEPT !.pc = "load"]
      <4>1. "load" \in (Claiming \cup Active) \ {"submit"} /\ f[x].number \in Numbers
        BY <3>1, Zenon DEF Active, JobOK, Numbered
      <4>2. JobOK(f[x]) /\ f[x].pc # "idle"
        BY <3>1, Zenon
      <4>3. LET k == [f[x] EXCEPT !.pc = "load"]
            IN  JobOK(k) /\ k.pc = "load" /\ k.task = f[x].task /\ k.number = f[x].number
        BY <4>1, <4>2, NextPc, Zenon
      <4> QED  BY <3>1, <4>3, Zenon
    <3>2. CASE f[x].pc = "recover" /\ job'[x] = [f[x] EXCEPT !.pc = "report"]
      <4>1. "report" \in (Claiming \cup Active) \ {"submit"} /\ "report" \notin Numbered
        BY Zenon DEF Active, Numbered
      <4>2. JobOK(f[x]) /\ f[x].pc # "idle"
        BY <3>2, Zenon
      <4>3. LET k == [f[x] EXCEPT !.pc = "report"] IN JobOK(k) /\ k.pc = "report"
        BY <4>1, <4>2, NextPc, Zenon
      <4> QED  BY <3>2, <4>3, Zenon
    <3>3. CASE job'[x] = f[x]
      BY <3>3, Zenon
    <3> QED  BY <1>2, <3>1, <3>2, <3>3, Zenon
  <2>2. job' = [x \in Slots |-> job'[x]]
    BY <1>2, Zenon
  <2>3. JobInv'
    BY <2>1, <2>2, Zenon DEF JobInv, JobOK
  <2> QED  BY <2>1, <2>3, Zenon
<1> QED  BY <1>1, <1>2, Zenon DEF Launch

\* A prepared coroutine goes on to the next attempt, if the last one is known
\* to have failed, or reports; those prepared before it may be launched.
LEMMA PrepareMove ==
  ASSUME ResultInv, JobInv, NEW s \in Slots, prepare_reclaimed_hosted_task(s)
  PROVE  /\ JobInv'
         /\ \A x \in Slots :
             \/ job'[x] = job[x]
             \/ job'[x].pc \in {"report", "recover"}
             \/ /\ job[x].pc = "execute" /\ job'[x].pc = "load"
                /\ job'[x].task = job[x].task /\ job'[x].number = job[x].number
             \/ LET t == job[s].task
                    n == task[t].count
                IN  /\ job'[x].pc \in {"execute", "load"} /\ job'[x].task = t
                    /\ job'[x].number = n + 1
                    /\ n = 0 \/ Interrupted(attempt[t][n].status) = "failed"
<1> DEFINE t == job[s].task
           n == task[t].count
           execute == n = 0 \/ (Interrupted(attempt[t][n].status) = "failed" /\ n < MaxAttempts)
           next == At("execute", t, n + 1, 0, "none")
           report == At("recover", t, 0, 0, "none")
           f == [job EXCEPT ![s] = IF execute THEN next ELSE report]
<1>1. t \in Tasks /\ n \in 0 .. MaxAttempts
  BY Zenon DEF ResultInv, TaskRow, JobInv, JobOK, prepare_reclaimed_hosted_task
<1>2. execute => JobOK(next) /\ next.pc = "execute" /\ next.task = t /\ next.number = n + 1
  <2>1. execute => n + 1 \in Numbers
    BY <1>1 DEF Numbers, MaxAttempts
  <2>2. "execute" \in Claiming \cup Active
    BY Zenon DEF Claiming
  <2> HIDE DEF execute, n
  <2>3. ASSUME execute
        PROVE  JobOK(next) /\ next.pc = "execute" /\ next.task = t /\ next.number = n + 1
    BY <1>1, <2>1, <2>2, <2>3, FreshJob, SMTT(30)
  <2> QED  BY <2>3, Zenon
<1>3. JobOK(report) /\ report.pc = "recover"
  <2>1. "recover" \in Claiming \cup Active /\ "recover" \notin Numbered
    BY Zenon DEF Claiming, Numbered
  <2> QED  BY <1>1, <2>1, FreshJob
<1>4. job' = Launch(WorkerOf[s], f)
  BY Zenon DEF prepare_reclaimed_hosted_task
<1> HIDE DEF next, report
<1>5. /\ f = [x \in Slots |-> f[x]]
      /\ f[s] = IF execute THEN next ELSE report
      /\ \A x \in Slots \ {s} : f[x] = job[x]
  BY Zenon DEF JobInv
<1> HIDE DEF f
<1>6. Jobs(f)
  BY <1>2, <1>3, <1>5, Zenon DEF JobInv, Jobs
<1>7. /\ JobInv'
      /\ \A x \in Slots :
          \/ job'[x] = f[x]
          \/ job'[x].pc = "report"
          \/ /\ f[x].pc = "execute" /\ job'[x].pc = "load"
             /\ job'[x].task = f[x].task /\ job'[x].number = f[x].number
  BY <1>4, <1>6, LaunchMove
<1>8. ASSUME NEW x \in Slots
      PROVE  \/ job'[x] = job[x]
             \/ job'[x].pc \in {"report", "recover"}
             \/ /\ job[x].pc = "execute" /\ job'[x].pc = "load"
                /\ job'[x].task = job[x].task /\ job'[x].number = job[x].number
             \/ /\ job'[x].pc \in {"execute", "load"} /\ job'[x].task = t
                /\ job'[x].number = n + 1
                /\ execute
  <2>1. CASE x # s
    BY <2>1, <1>5, <1>7
  <2>2. CASE x = s /\ execute
    <3>1. f[x].pc = "execute" /\ f[x].task = t /\ f[x].number = n + 1
      BY <2>2, <1>2, <1>5, Zenon
    <3> HIDE DEF execute, n, t
    <3> QED  BY <2>2, <3>1, <1>7, Zenon
  <2>3. CASE x = s /\ ~execute
    <3>1. f[x].pc = "recover"
      BY <2>3, <1>3, <1>5, Zenon
    <3> QED  BY <3>1, <1>7, Zenon
  <2> QED  BY <2>1, <2>2, <2>3
<1> QED  BY <1>7, <1>8, Zenon

-----------------------------------------------------------------------------
(* The theorem on results *)

BaseInv == ResultInv /\ JobInv

\* What a step does to the tasks that have a result: nothing, or it applies it.
Kept == \A u \in Tasks : result[u] # NoResult => task'[u] = task[u] /\ result'[u] = result[u]
Wins ==
    \A t \in Tasks : result[t] # NoResult =>
        /\ task'[t] = task[t]
        /\ result'[t].digest = result[t].digest
        /\ result'[t].status = result[t].status
        /\ result[t].apply # "pending" => result'[t].apply = result[t].apply

\* A step that only rewrites the row of one open task, and leaves it open.
LEMMA RowStep ==
  ASSUME ResultInv, NEW t \in Tasks, task[t].status \notin Terminal, NEW row \in TaskRow,
         row.status \notin Terminal, row.live => row.status \in Held,
         task' = [task EXCEPT ![t] = row], result' = result
  PROVE  ResultInv' /\ Kept
<1>1. task' \in [Tasks -> TaskRow] /\ task'[t] = row /\ \A u \in Tasks \ {t} : task'[u] = task[u]
  BY Zenon DEF ResultInv
<1>2. ASSUME NEW u \in Tasks
      PROVE  /\ task'[u].status \in Terminal <=> result'[u] # NoResult
             /\ task'[u].live => task'[u].status \in Held
  BY <1>1, Zenon DEF ResultInv
<1>3. ResultInv'
  BY <1>1, <1>2, Zenon DEF ResultInv, NoResult
<1> QED  BY <1>1, <1>3, Zenon DEF Kept, ResultInv

\* The coordinator, the clock, the finalizer and the applicator.
LEMMA ResultTaskStep ==
  ASSUME ResultInv, NEW t \in Tasks, TaskStep(t)
  PROVE  ResultInv' /\ Wins
<1>0. task[t] \in TaskRow
  BY Zenon DEF ResultInv
<1>1. CASE create_task(t)
  <2> DEFINE row == [task[t] EXCEPT !.status = "queued"]
  <2>1. row \in TaskRow /\ row.status = "queued" /\ row.live = task[t].live
    BY <1>0, Zenon DEF TaskRow, Open
  <2>2. task[t].status \notin Terminal /\ ~task[t].live
    BY <1>1, Zenon DEF create_task, Terminal, ResultInv, Held
  <2>3. task' = [task EXCEPT ![t] = row] /\ result' = result
    BY <1>1, Zenon DEF create_task
  <2> HIDE DEF row
  <2>4. "queued" \notin Terminal
    BY Zenon DEF Terminal
  <2> QED  BY <2>1, <2>2, <2>3, <2>4, RowStep, Zenon DEF Kept, Wins
<1>2. CASE DeadlinePasses(t)
  BY <1>2, Zenon DEF DeadlinePasses, ResultInv, Wins, NoResult
<1>3. CASE LeaseExpires(t)
  <2> DEFINE row == [task[t] EXCEPT !.live = FALSE]
  <2>1. row \in TaskRow /\ row.status = task[t].status /\ row.live = FALSE
    BY <1>0, Zenon DEF TaskRow
  <2>2. task[t].status \notin Terminal
    BY <1>3, Zenon DEF LeaseExpires, ResultInv, Held, Terminal
  <2>3. task' = [task EXCEPT ![t] = row] /\ result' = result
    BY <1>3, Zenon DEF LeaseExpires
  <2> HIDE DEF row
  <2> QED  BY <2>1, <2>2, <2>3, RowStep, Zenon DEF Kept, Wins
<1>4. CASE finalize_expired_agent_task(t)
  BY <1>4, DefaultStep, Zenon DEF finalize_expired_agent_task, Wins
<1>5. CASE apply_arena_agent_task_result(t)
  <2> PICK outcome \in {"candidate", "fallback"} : result' = [result EXCEPT ![t].apply = outcome]
    BY <1>5, Zenon DEF apply_arena_agent_task_result
  <2>1. result[t].apply = "pending" /\ result[t] \in ResultRow /\ task' = task
    BY <1>5, Zenon DEF apply_arena_agent_task_result, ResultInv
  <2>2. /\ result' \in [Tasks -> ResultRow]
        /\ result'[t].digest = result[t].digest /\ result'[t].status = result[t].status
        /\ result'[t].apply = outcome
        /\ \A u \in Tasks \ {t} : result'[u] = result[u]
    BY <2>1, Zenon DEF ResultInv, ResultRow
  <2>3. result[t] # NoResult /\ result'[t] # NoResult
    BY <2>1, <2>2 DEF NoResult
  <2>4. ResultInv'
    BY <2>1, <2>2, <2>3, Zenon DEF ResultInv, NoResult
  <2> QED  BY <2>1, <2>2, <2>4, Zenon DEF Wins
<1> QED  BY <1>1, <1>2, <1>3, <1>4, <1>5, Zenon DEF TaskStep

\* The row of a task whose attempt n has started.
LEMMA StartedRow ==
  ASSUME NEW row \in TaskRow, NEW n \in Numbers
  PROVE  LET new == [row EXCEPT !.status = "running", !.count = n]
         IN  new \in TaskRow /\ new.status = "running" /\ new.count = n
<1>1. n \in 0 .. MaxAttempts
  BY DEF Numbers, MaxAttempts
<1>2. "running" \in Open \cup Terminal \cup {"absent"}
  BY Zenon DEF Open
<1> QED  BY <1>1, <1>2, Zenon DEF TaskRow

\* A coroutine: its submissions are the ones of SubmitStep, and a preparation
\* and an attempt leave a held task held.
LEMMA BaseSlotStep ==
  ASSUME BaseInv, NEW s \in Slots, SlotStep(s)
  PROVE  BaseInv' /\ Wins
<1> DEFINE t == job[s].task
<1>0. ResultInv /\ JobInv
  BY Zenon DEF BaseInv
<1>a. job[s].pc # "idle" => t \in Tasks /\ task[t] \in TaskRow
  BY Zenon DEF BaseInv, JobInv, JobOK, ResultInv
<1>b. UNCHANGED <<task, result>> => ResultInv' /\ Wins
  BY <1>0, Zenon DEF ResultInv, Wins, NoResult
<1>1. CASE prepare_reclaimed_hosted_task(s)
  <2>1. JobInv'
    BY <1>0, <1>1, PrepareMove, Zenon
  <2>2. t \in Tasks /\ task[t] \in TaskRow /\ task[t].status = "leased"
    BY <1>1, <1>a, Zenon DEF prepare_reclaimed_hosted_task
  <2>3. CASE UNCHANGED task
    BY <2>1, <2>3, <1>1, <1>b, Zenon DEF prepare_reclaimed_hosted_task, BaseInv
  <2>4. CASE task' = [task EXCEPT ![t].status = "running"]
    <3> DEFINE row == [task[t] EXCEPT !.status = "running"]
    <3>1. row \in TaskRow /\ row.status = "running"
      BY <2>2, Zenon DEF TaskRow, Open
    <3>2. task' = [task EXCEPT ![t] = row] /\ result' = result
      BY <2>4, <1>1, Zenon DEF prepare_reclaimed_hosted_task
    <3>3. "running" \in Held /\ "running" \notin Terminal /\ task[t].status \notin Terminal
      BY <2>2, Zenon DEF Held, Terminal
    <3> HIDE DEF row
    <3> QED  BY <1>0, <2>1, <2>2, <3>1, <3>2, <3>3, RowStep, Zenon DEF Kept, Wins, BaseInv
  <2> QED  BY <1>1, <2>3, <2>4, Zenon DEF prepare_reclaimed_hosted_task
<1>2. CASE ClaimRaises(s)
  BY <1>0, <1>2, <1>b, RaisesMove, Zenon DEF ClaimRaises, dbVars, BaseInv
<1>3. ASSUME NEW digest \in {"run", "preflight", "recovery"}, NEW status \in {"succeeded", "failed"},
             job[s].pc # "idle", submit_hosted_agent_task_result(s, digest, status)
      PROVE  BaseInv' /\ Wins
  <2>1. JobInv'
    BY <1>0, <1>3, EndsMove, Zenon DEF submit_hosted_agent_task_result
  <2>2. ResultInv' /\ Kept
    BY <1>0, <1>3, <1>a, SubmitStep, Zenon DEF Kept
  <2> QED  BY <2>1, <2>2, Zenon DEF Kept, Wins, BaseInv
<1>4. CASE ReportRecovered(s)
  BY <1>3, <1>4, Zenon DEF ReportRecovered
<1>5. CASE load_hosted_agent_runtime_context(s)
  BY <1>0, <1>5, <1>b, LoadMove, Zenon DEF load_hosted_agent_runtime_context, BaseInv
<1>6. CASE PreflightFails(s)
  BY <1>0, <1>6, <1>b, PreflightMove, Zenon DEF PreflightFails, dbVars, BaseInv
<1>7. CASE SubmitPreflightFailure(s)
  BY <1>3, <1>7, Zenon DEF SubmitPreflightFailure
<1>8. CASE start_agent_task_attempt(s)
  <2>1. CASE Ends(s) /\ UNCHANGED task
    BY <2>1, <1>0, <1>8, <1>b, EndsMove, Zenon DEF start_agent_task_attempt, BaseInv
  <2>2. CASE /\ Leased(t, WorkerOf[s])
             /\ task' = [task EXCEPT ![t] = [@ EXCEPT !.status = "running", !.count = job[s].number]]
             /\ Goes(s, "mark")
    <3> DEFINE row == [task[t] EXCEPT !.status = "running", !.count = job[s].number]
    <3>1. /\ job[s].pc \in Numbered /\ job[s].number \in Numbers
          /\ t \in Tasks /\ task[t] \in TaskRow /\ result' = result
      BY <1>8, <1>a, <1>0, Zenon DEF start_agent_task_attempt, Numbered, JobInv, JobOK
    <3>2. JobInv'
      BY <1>0, <2>2, <3>1, GoesMove, Zenon
    <3>3. row \in TaskRow /\ row.status = "running"
      BY <3>1, StartedRow, Zenon
    <3>4. task' = [task EXCEPT ![t] = row]
      BY <2>2, Zenon
    <3>5. "running" \in Held /\ "running" \notin Terminal /\ task[t].status \notin Terminal
      BY <2>2, Zenon DEF Leased, Held, Terminal
    <3> HIDE DEF row
    <3> QED  BY <1>0, <3>1, <3>2, <3>3, <3>4, <3>5, RowStep, Zenon DEF Kept, Wins, BaseInv
  <2> QED  BY <1>8, <2>1, <2>2, Zenon DEF start_agent_task_attempt
<1>9. CASE mark_agent_task_attempt_request_sent(s)
  <2>1. ResultInv' /\ Wins
    BY <1>9, <1>b, Zenon DEF mark_agent_task_attempt_request_sent
  <2>2. CASE Ends(s)
    BY <2>1, <2>2, <1>0, EndsMove, Zenon DEF BaseInv
  <2>3. CASE Goes(s, "call")
    <3>1. job[s].pc \in Numbered
      BY <1>9, Zenon DEF mark_agent_task_attempt_request_sent, Numbered
    <3> QED  BY <2>1, <2>3, <3>1, <1>0, GoesMove, Zenon DEF BaseInv
  <2> QED  BY <1>9, <2>2, <2>3, Zenon DEF mark_agent_task_attempt_request_sent
<1>10. ASSUME NEW outcome \in {"succeeded", "invalid", "failed", "unknown"},
              complete_pydantic_agent_task_attempt(s, outcome)
       PROVE  BaseInv' /\ Wins
  <2>1. ResultInv' /\ Wins
    BY <1>10, <1>b, Zenon DEF complete_pydantic_agent_task_attempt
  <2> QED  BY <1>0, <1>10, <2>1, CompleteMove, Zenon DEF BaseInv
<1>11. CASE stage_hosted_agent_memory_patch(s)
  BY <1>0, <1>11, <1>b, StageMove, Zenon DEF stage_hosted_agent_memory_patch, BaseInv
<1>12. CASE SubmitResult(s)
  <2>1. job[s].status \in {"succeeded", "failed"} /\ job[s].pc # "idle"
    BY <1>0, <1>12, Zenon DEF SubmitResult, JobInv, JobOK
  <2> QED  BY <1>3, <1>12, <2>1, Zenon DEF SubmitResult
<1>13. CASE Abandon(s)
  BY <1>0, <1>13, <1>b, EndsMove, Zenon DEF Abandon, dbVars, BaseInv
<1> QED
  BY <1>1, <1>2, <1>4, <1>5, <1>6, <1>7, <1>8, <1>9, <1>10, <1>11, <1>12, <1>13, Zenon
       DEF SlotStep

\* A claim takes queued tasks and tasks whose lease ran out.
LEMMA BaseClaimStep ==
  ASSUME BaseInv, NEW w \in Workers, NEW S \in SUBSET Tasks, claim_hosted_agent_tasks_v2(w, S)
  PROVE  BaseInv' /\ Wins
<1> DEFINE row(t) == [task[t] EXCEPT !.status = "leased", !.owner = w, !.live = TRUE]
<1>1. ASSUME NEW t \in Tasks
      PROVE  row(t) \in TaskRow /\ row(t).status = "leased"
  <2>1. task[t] \in TaskRow
    BY Zenon DEF BaseInv, ResultInv
  <2> QED  BY <2>1, Zenon DEF TaskRow, Open
<1>2. task' = [t \in Tasks |-> IF t \in S THEN row(t) ELSE task[t]] /\ result' = result
  BY Zenon DEF claim_hosted_agent_tasks_v2
<1>3. \A t \in S : task[t].status \notin Terminal
  BY Zenon DEF claim_hosted_agent_tasks_v2, Eligible, Held, Terminal
<1> HIDE DEF row
<1>4. \A t \in Tasks : task'[t] = IF t \in S THEN row(t) ELSE task[t]
  BY <1>2, Zenon
<1>5. task' \in [Tasks -> TaskRow]
  BY <1>1, <1>2, Zenon DEF BaseInv, ResultInv
<1>6. "leased" \in Held /\ "leased" \notin Terminal
  BY Zenon DEF Held, Terminal
<1>7. ASSUME NEW t \in Tasks
      PROVE  /\ task'[t].status \in Terminal <=> result'[t] # NoResult
             /\ task'[t].live => task'[t].status \in Held
             /\ result[t] # NoResult => task'[t] = task[t]
  <2>1. CASE t \in S
    BY <2>1, <1>1, <1>2, <1>3, <1>4, <1>6, Zenon DEF BaseInv, ResultInv
  <2>2. CASE t \notin S
    BY <2>2, <1>2, <1>4, Zenon DEF BaseInv, ResultInv
  <2> QED  BY <2>1, <2>2
<1>8. ResultInv'
  BY <1>2, <1>5, <1>7, Zenon DEF BaseInv, ResultInv, NoResult
<1>9. JobInv'
  BY ClaimMove, Zenon DEF BaseInv
<1> QED  BY <1>2, <1>7, <1>8, <1>9, Zenon DEF BaseInv, Wins

\* BaseInv is inductive, and a step from it keeps the results there are.
LEMMA BaseStep == BaseInv /\ [Next]_vars => BaseInv' /\ (Wins \/ UNCHANGED vars)
<1> SUFFICES ASSUME BaseInv, [Next]_vars PROVE BaseInv' /\ (Wins \/ UNCHANGED vars)
  BY Zenon
<1>0. ResultInv /\ JobInv
  BY Zenon DEF BaseInv
<1>a. UNCHANGED <<task, result>> => ResultInv' /\ Wins
  BY <1>0, Zenon DEF ResultInv, Wins, NoResult
<1>b. UNCHANGED job => JobInv'
  BY <1>0, Zenon DEF JobInv, JobOK
<1>1. CASE UNCHANGED vars
  BY <1>1, <1>a, <1>b, Zenon DEF vars, BaseInv
<1>2. ASSUME NEW t \in Tasks, TaskStep(t) PROVE BaseInv' /\ Wins
  <2>1. UNCHANGED job
    BY <1>2, Zenon DEF TaskStep, create_task, DeadlinePasses, LeaseExpires,
         finalize_expired_agent_task, apply_arena_agent_task_result
  <2> QED  BY <1>0, <1>2, <1>b, <2>1, ResultTaskStep, Zenon DEF BaseInv
<1>3. ASSUME NEW w \in Workers, Crash(w) PROVE BaseInv' /\ Wins
  BY <1>0, <1>3, <1>a, CrashMove, Zenon DEF Crash, dbVars, BaseInv
<1>4. CASE project_hosted_agent_memory_patches
  BY <1>4, <1>a, <1>b, Zenon DEF project_hosted_agent_memory_patches, BaseInv
<1> QED  BY <1>1, <1>2, <1>3, <1>4, BaseSlotStep, BaseClaimStep, Zenon DEF Next

\* ResultInv and JobInv hold throughout.
THEOREM BaseAlways == Spec => []BaseInv
<1>1. Init => BaseInv
  BY ResultInit, JobInit, Zenon DEF BaseInv
<1> QED  BY <1>1, BaseStep, PTL DEF Spec

\* FirstResultWins: no interleaving of late workers, recoveries and the
\* finalizer replaces a result or applies it twice.
THEOREM ResultIsFinal == Spec => FirstResultWins
<1>1. BaseInv /\ [Next]_vars => [Wins]_vars
  BY BaseStep, Zenon
<1> QED  BY <1>1, BaseAlways, PTL DEF Spec, FirstResultWins, Wins

-----------------------------------------------------------------------------
(* No blind repetition *)

\* The attempts of a task are numbered without gaps, and a second one follows
\* only a first that failed.
AttemptInv ==
    /\ attempt \in [Tasks -> [Numbers -> AttemptRow]]
    /\ \A t \in Tasks :
        /\ \A n \in Numbers : attempt[t][n].status = "none" <=> n > task[t].count
        /\ task[t].count = 2 => attempt[t][1].status = "failed"

\* What a coroutine that is about to ask the model knows.  The one about to
\* make a second attempt has seen the first fail; one that made an attempt
\* is alone with it, and while it waits for the model no other step than a
\* recovery touches the row of the attempt.
Waiting == {"mark", "call"}
SecondAfterFailure(j) ==
    j.pc \in {"execute", "load", "start"} /\ j.number = 2 => attempt[j.task][1].status = "failed"
OwnAttempt(j) == j.pc \in Waiting => j.number <= task[j.task].count
RequestOut(j) ==
    j.pc = "call" => attempt[j.task][j.number].status \in {"request_sent", "unknown"}
SameAttempt(j, k) ==
    j.pc \in Waiting /\ k.pc \in Waiting /\ j.task = k.task /\ j.number = k.number
SlotInv ==
    /\ \A s \in Slots : SecondAfterFailure(job[s]) /\ OwnAttempt(job[s]) /\ RequestOut(job[s])
    /\ \A s, x \in Slots : SameAttempt(job[s], job[x]) => s = x

\* An answer on its way to the sink, and one in it, is that of an attempt.
Backed(u) == \E n \in Numbers : attempt[u][n].status = "succeeded"
HasAnswer(j) == j.pc = "stage" \/ (j.pc = "submit" /\ j.status = "succeeded")
AnswerInv ==
    /\ \A s \in Slots : HasAnswer(job[s]) => Backed(job[s].task)
    /\ \A t \in Tasks : result[t].status = "succeeded" => Backed(t)

CallInv == AttemptInv /\ SlotInv

\* Init establishes both: there is no attempt and no coroutine at work.
LEMMA CallInit == Init => CallInv /\ AnswerInv
<1> SUFFICES ASSUME Init PROVE CallInv /\ AnswerInv
  BY Zenon
<1>1. /\ \A t \in Tasks : task[t].count = 0 /\ result[t].status = "none"
      /\ \A t \in Tasks : \A n \in Numbers : attempt[t][n].status = "none"
      /\ \A s \in Slots : job[s].pc = "idle"
  BY Zenon DEF Init, NoRow, NoAttempt, NoResult, Idle, At
<1>2. attempt \in [Tasks -> [Numbers -> AttemptRow]]
  BY Zenon DEF Init, NoAttempt, AttemptRow
<1>3. AttemptInv
  BY <1>1, <1>2 DEF AttemptInv, Numbers, MaxAttempts
<1>4. SlotInv
  BY <1>1, Zenon DEF SlotInv, SecondAfterFailure, OwnAttempt, RequestOut, SameAttempt, Waiting
<1>5. AnswerInv
  BY <1>1, Zenon DEF AnswerInv, HasAnswer
<1> QED  BY <1>3, <1>4, <1>5, Zenon DEF CallInv

\* The status of one attempt changes.
SetStatus(t, n, status) == attempt' = [attempt EXCEPT ![t][n].status = status]
LEMMA StatusUpdate ==
  ASSUME AttemptInv, NEW t \in Tasks, NEW n \in Numbers,
         NEW status \in {"created", "request_sent", "succeeded", "failed", "unknown"},
         SetStatus(t, n, status)
  PROVE  /\ attempt' \in [Tasks -> [Numbers -> AttemptRow]]
         /\ attempt'[t][n].status = status
         /\ \A u \in Tasks, m \in Numbers :
                u # t \/ m # n => attempt'[u][m].status = attempt[u][m].status
<1> DEFINE row == [attempt[t][n] EXCEPT !.status = status]
           rows == [attempt[t] EXCEPT ![n] = row]
<1>1. attempt[t] \in [Numbers -> AttemptRow] /\ attempt[t][n] \in AttemptRow
  BY Zenon DEF AttemptInv
<1>2. row \in AttemptRow /\ row.status = status
  BY <1>1, Zenon DEF AttemptRow
<1>3. attempt' = [attempt EXCEPT ![t] = rows]
  BY Zenon DEF SetStatus
<1> HIDE DEF row
<1>4. /\ rows \in [Numbers -> AttemptRow] /\ rows[n] = row
      /\ \A m \in Numbers \ {n} : rows[m] = attempt[t][m]
  BY <1>1, <1>2, Zenon
<1> HIDE DEF rows
<1>5. attempt' \in [Tasks -> [Numbers -> AttemptRow]]
  BY <1>3, <1>4, Zenon DEF AttemptInv
<1>6. attempt'[t] = rows /\ \A u \in Tasks \ {t} : attempt'[u] = attempt[u]
  BY <1>3, Zenon DEF AttemptInv
<1> QED  BY <1>2, <1>4, <1>5, <1>6, Zenon

\* A step that starts no attempt and makes no failed one anything else ...
Calm ==
    /\ attempt' \in [Tasks -> [Numbers -> AttemptRow]]
    /\ \A u \in Tasks, m \in Numbers :
        /\ attempt'[u][m].status = "none" <=> attempt[u][m].status = "none"
        /\ attempt[u][m].status = "failed" => attempt'[u][m].status = "failed"
    /\ \A u \in Tasks : task'[u].count = task[u].count

\* ... and what it may do to a coroutine.
SlotFrame(x) ==
    /\ job'[x].pc \in Waiting =>
        /\ job[x].pc \in Waiting
        /\ job'[x].task = job[x].task
        /\ job'[x].number = job[x].number
    /\ SecondAfterFailure(job[x])'
    /\ RequestOut(job[x])'

LEMMA CalmStep ==
  ASSUME CallInv, JobInv, JobInv', Calm, \A x \in Slots : SlotFrame(x)
  PROVE  CallInv'
<1>1. AttemptInv'
  <2>1. 1 \in Numbers
    BY DEF Numbers, MaxAttempts
  <2> QED  BY <2>1 DEF CallInv, AttemptInv, Calm
<1>2. ASSUME NEW s \in Slots
      PROVE  OwnAttempt(job[s])'
  <2>1. CASE job'[s].pc \in Waiting
    <3>1. job[s].pc \in Waiting /\ job'[s].task = job[s].task /\ job'[s].number = job[s].number
      BY <2>1, Zenon DEF SlotFrame
    <3>2. job[s].task \in Tasks
      BY <3>1, Zenon DEF JobInv, JobOK, Waiting
    <3> QED  BY <3>1, <3>2, Zenon DEF CallInv, SlotInv, OwnAttempt, Calm
  <2> QED  BY <2>1, Zenon DEF OwnAttempt
<1>3. ASSUME NEW s \in Slots, NEW x \in Slots, SameAttempt(job[s], job[x])'
      PROVE  s = x
  <2>1. SameAttempt(job[s], job[x])
    BY <1>3, Zenon DEF SameAttempt, SlotFrame
  <2> QED  BY <2>1, Zenon DEF CallInv, SlotInv
<1>4. \A s \in Slots : SecondAfterFailure(job[s])' /\ RequestOut(job[s])'
  BY Zenon DEF SlotFrame
<1> QED  BY <1>1, <1>2, <1>3, <1>4, Zenon DEF CallInv, SlotInv

\* A coroutine that stays where it is, or goes where no attempt is waited for.
LEMMA StaysFrame ==
  ASSUME CallInv, JobInv, Calm, NEW x \in Slots, job'[x] = job[x], RequestOut(job[x])'
  PROVE  SlotFrame(x)
<1>1. SecondAfterFailure(job[x])'
  <2>1. CASE job[x].pc \in {"execute", "load", "start"}
    <3>1. job[x].task \in Tasks /\ 1 \in Numbers
      BY <2>1 DEF JobInv, JobOK, Numbers, MaxAttempts
    <3> QED  BY <3>1 DEF CallInv, SlotInv, SecondAfterFailure, Calm
  <2> QED  BY <2>1, Zenon DEF SecondAfterFailure
<1> QED  BY <1>1, Zenon DEF SlotFrame

LEMMA QuietFrame ==
  ASSUME NEW x \in Slots, job'[x].pc \notin Numbered
  PROVE  SlotFrame(x)
BY Zenon DEF SlotFrame, Waiting, SecondAfterFailure, RequestOut, Numbered

\* A coroutine on its way to the start of the same attempt.
LEMMA AheadFrame ==
  ASSUME CallInv, JobInv, Calm, NEW x \in Slots, job[x].pc \in {"execute", "load"},
         job'[x].pc \in {"load", "start"}, job'[x].task = job[x].task,
         job'[x].number = job[x].number
  PROVE  SlotFrame(x)
<1>1. job[x].task \in Tasks /\ 1 \in Numbers
  BY DEF JobInv, JobOK, Numbers, MaxAttempts
<1>2. job[x].number = 2 => attempt[job[x].task][1].status = "failed"
  BY Zenon DEF CallInv, SlotInv, SecondAfterFailure
<1>3. job[x].number = 2 => attempt'[job[x].task][1].status = "failed"
  BY <1>1, <1>2, Zenon DEF Calm
<1>4. SecondAfterFailure(job[x])'
  BY <1>3, Zenon DEF SecondAfterFailure
<1> QED  BY <1>4, Zenon DEF SlotFrame, Waiting, RequestOut

\* A task with an answer keeps it.
Steady == \A u \in Tasks : Backed(u) => Backed(u)'

\* A step that touches no attempt.
LEMMA QuietStep ==
  ASSUME CallInv, JobInv, JobInv', attempt' = attempt,
         \A u \in Tasks : task'[u].count = task[u].count,
         \A x \in Slots :
            \/ job'[x] = job[x]
            \/ job'[x].pc \notin Numbered
            \/ /\ job[x].pc \in {"execute", "load"} /\ job'[x].pc \in {"load", "start"}
               /\ job'[x].task = job[x].task /\ job'[x].number = job[x].number
  PROVE  CallInv' /\ Steady
<1>1. Calm
  BY Zenon DEF Calm, CallInv, AttemptInv
<1>2. ASSUME NEW x \in Slots PROVE SlotFrame(x)
  <2>1. CASE job'[x] = job[x]
    <3>1. RequestOut(job[x])'
      BY <2>1, Zenon DEF CallInv, SlotInv, RequestOut
    <3> QED  BY <1>1, <2>1, <3>1, StaysFrame, Zenon
  <2>2. CASE job'[x].pc \notin Numbered
    BY <2>2, QuietFrame, Zenon
  <2>3. CASE /\ job[x].pc \in {"execute", "load"} /\ job'[x].pc \in {"load", "start"}
             /\ job'[x].task = job[x].task /\ job'[x].number = job[x].number
    BY <1>1, <2>3, AheadFrame, Zenon
  <2> QED  BY <2>1, <2>2, <2>3
<1>3. Steady
  BY Zenon DEF Steady, Backed
<1> QED  BY <1>1, <1>2, <1>3, CalmStep, Zenon

\* A recovery closes the attempt of the lease before.
LEMMA PrepareCall ==
  ASSUME BaseInv, CallInv, NEW s \in Slots, prepare_reclaimed_hosted_task(s)
  PROVE  CallInv' /\ Steady
<1> DEFINE t == job[s].task
           n == task[t].count
           last == Interrupted(attempt[t][n].status)
<1>0. ResultInv /\ JobInv /\ AttemptInv
  BY Zenon DEF BaseInv, CallInv
<1>1. t \in Tasks /\ n \in 0 .. MaxAttempts /\ task[t] \in TaskRow
  BY <1>0, Zenon DEF JobInv, JobOK, ResultInv, TaskRow, prepare_reclaimed_hosted_task
<1>2. \A u \in Tasks : task'[u].count = task[u].count
  <2>1. CASE UNCHANGED task
    BY <2>1, Zenon
  <2>2. CASE task' = [task EXCEPT ![t].status = "running"]
    BY <1>0, <1>1, <2>2, Zenon DEF ResultInv, TaskRow
  <2> QED  BY <2>1, <2>2, Zenon DEF prepare_reclaimed_hosted_task
<1>3. /\ attempt' \in [Tasks -> [Numbers -> AttemptRow]]
      /\ n # 0 => n \in Numbers /\ attempt[t][n].status # "none" /\ attempt'[t][n].status = last
      /\ \A u \in Tasks, m \in Numbers :
            u # t \/ m # n => attempt'[u][m].status = attempt[u][m].status
  <2>1. CASE n = 0
    BY <1>0, <2>1, Zenon DEF prepare_reclaimed_hosted_task, AttemptInv
  <2>2. CASE n # 0
    <3>1. n \in Numbers
      BY <1>1, <2>2 DEF Numbers, MaxAttempts
    <3>2. attempt[t][n] \in AttemptRow /\ attempt[t][n].status # "none"
      BY <1>0, <1>1, <3>1 DEF AttemptInv, Numbers, MaxAttempts
    <3>3. last \in {"created", "request_sent", "succeeded", "failed", "unknown"}
      BY <3>2, Zenon DEF Interrupted, AttemptRow
    <3>4. SetStatus(t, n, last)
      BY <2>2, Zenon DEF prepare_reclaimed_hosted_task, SetStatus
    <3> HIDE DEF last, n, t
    <3>5. /\ attempt' \in [Tasks -> [Numbers -> AttemptRow]]
          /\ attempt'[t][n].status = last
          /\ \A u \in Tasks, m \in Numbers :
                u # t \/ m # n => attempt'[u][m].status = attempt[u][m].status
      BY <1>0, <1>1, <3>1, <3>3, <3>4, StatusUpdate
    <3> QED  BY <3>1, <3>2, <3>5, Zenon
  <2> QED  BY <2>1, <2>2, Zenon
<1>4. /\ last = "none" => attempt[t][n].status = "none"
      /\ attempt[t][n].status = "failed" => last = "failed"
      /\ attempt[t][n].status = "succeeded" => last = "succeeded"
      /\ attempt[t][n].status \in {"request_sent", "unknown"} => last = "unknown"
  BY Zenon DEF Interrupted
<1>5. JobInv'
  BY <1>0, PrepareMove, Zenon
<1>6. \A x \in Slots :
        \/ job'[x] = job[x]
        \/ job'[x].pc \in {"report", "recover"}
        \/ /\ job[x].pc = "execute" /\ job'[x].pc = "load"
           /\ job'[x].task = job[x].task /\ job'[x].number = job[x].number
        \/ /\ job'[x].pc \in {"execute", "load"} /\ job'[x].task = t
           /\ job'[x].number = n + 1
           /\ n = 0 \/ last = "failed"
  BY <1>0, PrepareMove, Zenon
<1> HIDE DEF last, n, t
<1>7. ASSUME NEW u \in Tasks, NEW m \in Numbers
      PROVE  /\ attempt'[u][m].status = "none" <=> attempt[u][m].status = "none"
             /\ attempt[u][m].status = "failed" => attempt'[u][m].status = "failed"
             /\ attempt[u][m].status = "succeeded" => attempt'[u][m].status = "succeeded"
             /\ attempt[u][m].status \in {"request_sent", "unknown"}
                    => attempt'[u][m].status \in {"request_sent", "unknown"}
  <2>1. CASE u # t \/ m # n
    BY <2>1, <1>3, Zenon
  <2>2. CASE u = t /\ m = n
    <3>1. n # 0
      BY <2>2 DEF Numbers, MaxAttempts
    <3> QED  BY <2>2, <3>1, <1>3, <1>4, Zenon
  <2> QED  BY <2>1, <2>2
<1>8. Calm
  BY <1>2, <1>3, <1>7, Zenon DEF Calm
<1>9. ASSUME NEW x \in Slots PROVE SlotFrame(x)
  <2>1. CASE job'[x] = job[x]
    <3>1. CASE job[x].pc = "call"
      <4>1. job[x].task \in Tasks /\ job[x].number \in Numbers
        BY <1>0, <3>1, Zenon DEF JobInv, JobOK, Numbered
      <4>2. attempt[job[x].task][job[x].number].status \in {"request_sent", "unknown"}
        BY <3>1, Zenon DEF CallInv, SlotInv, RequestOut
      <4>3. RequestOut(job[x])'
        BY <2>1, <4>1, <4>2, <1>7, Zenon DEF RequestOut
      <4> QED  BY <1>0, <1>8, <2>1, <4>3, StaysFrame, Zenon
    <3>2. CASE job[x].pc # "call"
      <4>1. RequestOut(job[x])'
        BY <2>1, <3>2, Zenon DEF RequestOut
      <4> QED  BY <1>0, <1>8, <2>1, <4>1, StaysFrame, Zenon
    <3> QED  BY <3>1, <3>2
  <2>2. CASE job'[x].pc \in {"report", "recover"}
    BY <2>2, QuietFrame, Zenon DEF Numbered
  <2>3. CASE /\ job[x].pc = "execute" /\ job'[x].pc = "load"
             /\ job'[x].task = job[x].task /\ job'[x].number = job[x].number
    BY <1>0, <1>8, <2>3, AheadFrame, Zenon
  <2>4. CASE /\ job'[x].pc \in {"execute", "load"} /\ job'[x].task = t
             /\ job'[x].number = n + 1
             /\ n = 0 \/ last = "failed"
    <3>1. job'[x].number = 2 => n = 1
      BY <1>1, <2>4 DEF MaxAttempts
    <3>2. n = 1 => attempt'[t][1].status = "failed"
      BY <2>4, <1>3
    <3>3. SecondAfterFailure(job[x])'
      BY <2>4, <3>1, <3>2, Zenon DEF SecondAfterFailure
    <3> QED  BY <2>4, <3>3, Zenon DEF SlotFrame, Waiting, RequestOut
  <2> QED  BY <1>6, <2>1, <2>2, <2>3, <2>4, Zenon
<1>10. Steady
  BY <1>7, Zenon DEF Steady, Backed
<1> QED  BY <1>0, <1>5, <1>8, <1>9, <1>10, CalmStep, Zenon

\* The attempt is marked, by the one coroutine that is at it.
LEMMA MarkCall ==
  ASSUME BaseInv, CallInv, NEW s \in Slots, mark_agent_task_attempt_request_sent(s)
  PROVE  CallInv' /\ Steady
<1> DEFINE t == job[s].task
           n == job[s].number
<1>0. ResultInv /\ JobInv /\ AttemptInv
  BY Zenon DEF BaseInv, CallInv
<1>1. job[s].pc = "mark" /\ job[s].pc \in Numbered /\ t \in Tasks /\ n \in Numbers /\ task' = task
  BY <1>0, Zenon DEF JobInv, JobOK, Numbered, mark_agent_task_attempt_request_sent
<1>2. CASE Ends(s) /\ UNCHANGED attempt
  <2>1. JobInv' /\ OnlyMoves(s) /\ job'[s] = Idle
    BY <1>0, <1>2, EndsMove, Zenon
  <2>2. job'[s].pc \notin Numbered
    BY <2>1 DEF Idle, At, Numbered
  <2> QED  BY <1>0, <1>1, <1>2, <2>1, <2>2, QuietStep DEF OnlyMoves
<1>3. CASE /\ attempt[t][n].status = "created"
           /\ SetStatus(t, n, "request_sent")
           /\ Goes(s, "call")
  <2>1. JobInv' /\ OnlyMoves(s) /\ job'[s].pc = "call" /\ job'[s].task = t /\ job'[s].number = n
    BY <1>0, <1>1, <1>3, GoesMove, Zenon
  <2>2. /\ attempt' \in [Tasks -> [Numbers -> AttemptRow]]
        /\ attempt'[t][n].status = "request_sent"
        /\ \A u \in Tasks, m \in Numbers :
              u # t \/ m # n => attempt'[u][m].status = attempt[u][m].status
    BY <1>0, <1>1, <1>3, StatusUpdate, Zenon
  <2> HIDE DEF t, n
  <2>3. Calm
    BY <1>1, <1>3, <2>2, Zenon DEF Calm
  <2>4. ASSUME NEW x \in Slots PROVE SlotFrame(x)
    <3>1. CASE x = s
      BY <3>1, <1>1, <2>1, <2>2, Zenon DEF SlotFrame, SecondAfterFailure, RequestOut, Waiting, t,
           n
    <3>2. CASE x # s
      <4>1. job'[x] = job[x]
        BY <3>2, <2>1, Zenon DEF OnlyMoves
      <4>2. RequestOut(job[x])'
        <5>1. CASE job[x].pc = "call"
          <6>1. job[x].task \in Tasks /\ job[x].number \in Numbers
            BY <1>0, <5>1, Zenon DEF JobInv, JobOK, Numbered
          <6>2. attempt[job[x].task][job[x].number].status \in {"request_sent", "unknown"}
            BY <5>1, Zenon DEF CallInv, SlotInv, RequestOut
          <6>3. job[x].task # t \/ job[x].number # n
            BY <6>2, <1>3, Zenon
          <6> QED  BY <4>1, <6>1, <6>2, <6>3, <2>2, Zenon DEF RequestOut
        <5> QED  BY <4>1, <5>1, Zenon DEF RequestOut
      <4> QED  BY <1>0, <2>3, <4>1, <4>2, StaysFrame, Zenon
    <3> QED  BY <3>1, <3>2
  <2>5. Steady
    BY <1>1, <1>3, <2>2, Zenon DEF Steady, Backed
  <2> QED  BY <1>0, <2>1, <2>3, <2>4, <2>5, CalmStep, Zenon
<1> QED  BY <1>2, <1>3 DEF mark_agent_task_attempt_request_sent, SetStatus

\* The attempt is completed, by the one coroutine that waits for it.
LEMMA CompleteCall ==
  ASSUME BaseInv, CallInv, NEW s \in Slots,
         NEW outcome \in {"succeeded", "invalid", "failed", "unknown"},
         complete_pydantic_agent_task_attempt(s, outcome)
  PROVE  /\ CallInv' /\ Steady
         /\ job'[s].pc = "stage" => job'[s].task = job[s].task /\ Backed(job[s].task)'
<1> DEFINE t == job[s].task
           n == job[s].number
           status == IF outcome = "invalid" THEN "failed" ELSE outcome
<1>0. ResultInv /\ JobInv /\ AttemptInv
  BY Zenon DEF BaseInv, CallInv
<1>1. job[s].pc = "call" /\ t \in Tasks /\ n \in Numbers /\ task' = task
  BY <1>0, Zenon DEF JobInv, JobOK, Numbered, complete_pydantic_agent_task_attempt
<1>2. CASE Ends(s) /\ UNCHANGED attempt
  <2>1. JobInv' /\ OnlyMoves(s) /\ job'[s] = Idle
    BY <1>0, <1>2, EndsMove, Zenon
  <2>2. job'[s].pc \notin Numbered /\ job'[s].pc # "stage"
    BY <2>1 DEF Idle, At, Numbered
  <2> QED  BY <1>0, <1>1, <1>2, <2>1, <2>2, QuietStep DEF OnlyMoves
<1>3. CASE attempt[t][n].status = "request_sent" /\ SetStatus(t, n, status)
  <2>1. /\ JobInv' /\ OnlyMoves(s)
        /\ \/ job'[s] = Idle
           \/ job'[s].pc = "submit" /\ job'[s].status = "failed"
           \/ job'[s].pc = "stage" /\ outcome = "succeeded" /\ job'[s].task = t
           \/ /\ job'[s].pc = "load" /\ outcome = "invalid" /\ job'[s].task = t
              /\ n = 1 /\ job'[s].number = 2
    BY <1>0, CompleteMove, Zenon
  <2>2. status \in {"succeeded", "failed", "unknown"}
    BY Zenon
  <2> HIDE DEF status
  <2>3. /\ attempt' \in [Tasks -> [Numbers -> AttemptRow]]
        /\ attempt'[t][n].status = status
        /\ \A u \in Tasks, m \in Numbers :
              u # t \/ m # n => attempt'[u][m].status = attempt[u][m].status
    BY <1>0, <1>1, <1>3, <2>2, StatusUpdate
  <2> HIDE DEF t, n
  <2>4. Calm
    BY <1>1, <1>3, <2>2, <2>3, Zenon DEF Calm
  <2>5. SlotFrame(s)
    <3>1. CASE job'[s] = Idle \/ job'[s].pc \in {"submit", "stage"}
      <4>1. job'[s].pc \notin Numbered
        BY <3>1 DEF Idle, At, Numbered
      <4> QED  BY <4>1, QuietFrame, Zenon
    <3>2. CASE /\ job'[s].pc = "load" /\ outcome = "invalid" /\ job'[s].task = t
               /\ n = 1 /\ job'[s].number = 2
      BY <3>2, <2>3, Zenon DEF SlotFrame, SecondAfterFailure, RequestOut, Waiting, status
    <3> QED  BY <2>1, <3>1, <3>2, Zenon
  <2>6. ASSUME NEW x \in Slots, x # s PROVE SlotFrame(x)
    <3>1. job'[x] = job[x]
      BY <2>6, <2>1, Zenon DEF OnlyMoves
    <3>2. RequestOut(job[x])'
      <4>1. CASE job[x].pc = "call"
        <5>1. job[x].task \in Tasks /\ job[x].number \in Numbers
          BY <1>0, <4>1, Zenon DEF JobInv, JobOK, Numbered
        <5>2. attempt[job[x].task][job[x].number].status \in {"request_sent", "unknown"}
          BY <4>1, Zenon DEF CallInv, SlotInv, RequestOut
        <5>3. ~SameAttempt(job[s], job[x])
          BY <2>6, Zenon DEF CallInv, SlotInv
        <5>4. job[x].task # t \/ job[x].number # n
          BY <5>3, <4>1, <1>1, Zenon DEF SameAttempt, Waiting, t, n
        <5> QED  BY <3>1, <5>1, <5>2, <5>4, <2>3, Zenon DEF RequestOut
      <4> QED  BY <3>1, <4>1 DEF RequestOut
    <3> QED  BY <1>0, <2>4, <3>1, <3>2, StaysFrame, Zenon
  <2>7. Steady
    BY <1>1, <1>3, <2>3, Zenon DEF Steady, Backed
  <2>8. job'[s].pc = "stage" => job'[s].task = t /\ attempt'[t][n].status = "succeeded"
    BY <2>1, <2>3 DEF status, Idle, At
  <2>9. job'[s].pc = "stage" => Backed(t)'
    BY <1>1, <2>8, Zenon DEF Backed, t
  <2> QED  BY <1>0, <2>1, <2>4, <2>5, <2>6, <2>7, <2>8, <2>9, CalmStep, Zenon DEF t
<1> QED  BY <1>2, <1>3 DEF complete_pydantic_agent_task_attempt, SetStatus

\* A new attempt has a number of its own: every coroutine at an attempt of
\* the task is at one that is counted.
LEMMA StartCall ==
  ASSUME BaseInv, CallInv, NEW s \in Slots, start_agent_task_attempt(s)
  PROVE  CallInv' /\ Steady
<1> DEFINE t == job[s].task
           n == job[s].number
           new == [status |-> "created", worker |-> WorkerOf[s]]
           row == [task[t] EXCEPT !.status = "running", !.count = n]
<1>0. ResultInv /\ JobInv /\ AttemptInv
  BY Zenon DEF BaseInv, CallInv
<1>1. job[s].pc = "start" /\ job[s].pc \in Numbered /\ t \in Tasks /\ n \in Numbers
  BY <1>0, Zenon DEF JobInv, JobOK, Numbered, start_agent_task_attempt
<1>2. CASE Ends(s) /\ UNCHANGED <<attempt, task>>
  <2>1. JobInv' /\ OnlyMoves(s) /\ job'[s] = Idle
    BY <1>0, <1>2, EndsMove, Zenon
  <2>2. job'[s].pc \notin Numbered
    BY <2>1 DEF Idle, At, Numbered
  <2> QED  BY <1>0, <1>1, <1>2, <2>1, <2>2, QuietStep DEF OnlyMoves
<1>3. CASE /\ n = task[t].count + 1
           /\ attempt' = [attempt EXCEPT ![t][n] = new]
           /\ task' = [task EXCEPT ![t] = row]
           /\ Goes(s, "mark")
  <2>1. JobInv' /\ OnlyMoves(s) /\ job'[s].pc = "mark" /\ job'[s].task = t /\ job'[s].number = n
    BY <1>0, <1>1, <1>3, GoesMove, Zenon
  <2>2. task[t] \in TaskRow
    BY <1>0, <1>1, Zenon DEF ResultInv
  <2>3. row.count = n
    BY <1>1, <2>2, StartedRow, Zenon
  <2>4. new \in AttemptRow /\ new.status = "created"
    BY HostedAssumption, Zenon DEF AttemptRow
  <2> DEFINE rows == [attempt[t] EXCEPT ![n] = new]
  <2>5. attempt' = [attempt EXCEPT ![t] = rows]
    BY <1>3, Zenon
  <2> HIDE DEF new, row
  <2>6. /\ rows \in [Numbers -> AttemptRow] /\ rows[n] = new
        /\ \A m \in Numbers \ {n} : rows[m] = attempt[t][m]
    BY <1>0, <1>1, <2>4, Zenon DEF AttemptInv
  <2> HIDE DEF rows
  <2>7. /\ attempt' \in [Tasks -> [Numbers -> AttemptRow]] /\ attempt'[t] = rows
        /\ \A u \in Tasks \ {t} : attempt'[u] = attempt[u]
    BY <1>0, <1>1, <2>5, <2>6, Zenon DEF AttemptInv
  <2>8. task'[t].count = n /\ \A u \in Tasks \ {t} : task'[u] = task[u]
    BY <1>0, <1>1, <1>3, <2>3, Zenon DEF ResultInv
  <2>9. task[t].count \in 0 .. MaxAttempts /\ attempt[t][n].status = "none"
    BY <1>0, <1>1, <1>3, <2>2, SMTT(40) DEF AttemptInv, TaskRow, MaxAttempts
  <2>10. /\ attempt'[t][n].status = "created"
         /\ \A u \in Tasks, m \in Numbers :
                u # t \/ m # n => attempt'[u][m] = attempt[u][m]
    BY <1>1, <2>4, <2>6, <2>7, Zenon
  <2> HIDE DEF t, n
  <2>11. AttemptInv'
    <3>1. ASSUME NEW u \in Tasks, NEW m \in Numbers
          PROVE  attempt'[u][m].status = "none" <=> m > task'[u].count
      <4>1. CASE u # t
        BY <4>1, <1>0, <2>8, <2>10 DEF AttemptInv
      <4>2. CASE u = t /\ m # n
        <5>1. m > n <=> m > task[t].count
          BY <4>2, <1>1, <1>3, <2>9 DEF Numbers, MaxAttempts
        <5> QED  BY <4>2, <5>1, <1>0, <2>8, <2>10 DEF AttemptInv
      <4>3. CASE u = t /\ m = n
        BY <4>3, <1>1, <2>8, <2>10 DEF Numbers, MaxAttempts
      <4> QED  BY <4>1, <4>2, <4>3, Zenon
    <3>2. ASSUME NEW u \in Tasks, task'[u].count = 2 PROVE attempt'[u][1].status = "failed"
      <4>0. 1 \in Numbers
        BY DEF Numbers, MaxAttempts
      <4>1. CASE u # t
        BY <3>2, <4>0, <4>1, <1>0, <2>8, <2>10, Zenon DEF AttemptInv
      <4>2. CASE u = t
        <5>1. n = 2
          BY <3>2, <4>2, <2>8, Zenon
        <5>2. attempt[t][1].status = "failed"
          BY <5>1, <1>1, Zenon DEF CallInv, SlotInv, SecondAfterFailure, t, n
        <5> QED  BY <4>0, <4>2, <5>1, <5>2, <2>10
      <4> QED  BY <4>1, <4>2, Zenon
    <3> QED  BY <2>7, <3>1, <3>2, Zenon DEF AttemptInv
  <2>12. ASSUME NEW x \in Slots, x # s
         PROVE  /\ SecondAfterFailure(job[x])' /\ OwnAttempt(job[x])' /\ RequestOut(job[x])'
                /\ ~(job[x].pc \in Waiting /\ job[x].task = t /\ job[x].number = n)
    <3>1. job'[x] = job[x] /\ (job[x].pc # "idle" => job[x].task \in Tasks)
          /\ (job[x].pc \in Numbered => job[x].number \in Numbers)
      BY <2>12, <2>1, <1>0, Zenon DEF OnlyMoves, JobInv, JobOK
    <3>2. SecondAfterFailure(job[x])'
      <4>1. CASE job[x].pc \in {"execute", "load", "start"} /\ job[x].number = 2
        <5>1. attempt[job[x].task][1].status = "failed" /\ job[x].task \in Tasks /\ 1 \in Numbers
          BY <4>1, <3>1 DEF CallInv, SlotInv, SecondAfterFailure, Numbers, MaxAttempts
        <5>2. attempt'[job[x].task][1].status = "failed"
          BY <5>1, <2>9, <2>10, Zenon
        <5> QED  BY <3>1, <5>2, Zenon DEF SecondAfterFailure
      <4> QED  BY <3>1, <4>1, Zenon DEF SecondAfterFailure
    <3>3. OwnAttempt(job[x])'
      <4>1. CASE job[x].pc \in Waiting
        <5>1. job[x].number <= task[job[x].task].count /\ job[x].task \in Tasks
              /\ job[x].number \in Numbers
          BY <4>1, <3>1, Zenon DEF CallInv, SlotInv, OwnAttempt, Waiting, Numbered
        <5>2. job[x].number <= task'[job[x].task].count
          BY <5>1, <2>8, <2>9, <1>1, <1>3 DEF Numbers, MaxAttempts
        <5> QED  BY <3>1, <5>2, Zenon DEF OwnAttempt
      <4> QED  BY <3>1, <4>1, Zenon DEF OwnAttempt
    <3>4. RequestOut(job[x])'
      <4>1. CASE job[x].pc = "call"
        <5>1. /\ attempt[job[x].task][job[x].number].status \in {"request_sent", "unknown"}
              /\ job[x].task \in Tasks /\ job[x].number \in Numbers
          BY <4>1, <3>1, Zenon DEF CallInv, SlotInv, RequestOut, Numbered
        <5>2. attempt'[job[x].task][job[x].number].status \in {"request_sent", "unknown"}
          BY <5>1, <2>9, <2>10, Zenon
        <5> QED  BY <3>1, <5>2, Zenon DEF RequestOut
      <4> QED  BY <3>1, <4>1 DEF RequestOut
    <3>5. ~(job[x].pc \in Waiting /\ job[x].task = t /\ job[x].number = n)
      BY <2>9, <1>1, <1>3 DEF CallInv, SlotInv, OwnAttempt, Numbers, MaxAttempts
    <3> QED  BY <3>2, <3>3, <3>4, <3>5, Zenon
  <2>13. SecondAfterFailure(job[s])' /\ OwnAttempt(job[s])' /\ RequestOut(job[s])'
    BY <2>1, <2>8, <1>1 DEF SecondAfterFailure, OwnAttempt, RequestOut, Numbers, MaxAttempts
  <2>14. ASSUME NEW x \in Slots, NEW y \in Slots, SameAttempt(job[x], job[y])'
         PROVE  x = y
    <3>1. CASE x # s /\ y # s
      BY <3>1, <2>14, <2>1, Zenon DEF OnlyMoves, SameAttempt, CallInv, SlotInv
    <3>2. CASE x = s /\ y # s
      BY <3>2, <2>14, <2>1, <2>12, Zenon DEF OnlyMoves, SameAttempt
    <3>3. CASE x # s /\ y = s
      BY <3>3, <2>14, <2>1, <2>12, Zenon DEF OnlyMoves, SameAttempt
    <3> QED  BY <3>1, <3>2, <3>3, Zenon
  <2>15. SlotInv'
    BY <2>12, <2>13, <2>14, Zenon DEF SlotInv
  <2>16. Steady
    BY <2>9, <2>10, Zenon DEF Steady, Backed
  <2> QED  BY <2>11, <2>15, <2>16, Zenon DEF CallInv
<1> QED  BY <1>2, <1>3, Zenon DEF start_agent_task_attempt

\* Whoever has an answer got it from the coroutine's own attempt, or had it before.
LEMMA AnswerStep ==
  ASSUME JobInv, AnswerInv, Steady,
         \A x \in Slots :
            job'[x] = job[x] \/ ~HasAnswer(job'[x]) \/ Backed(job[x].task)',
         \A t \in Tasks :
            result'[t].status = "succeeded" => result[t].status = "succeeded" \/ Backed(t)'
  PROVE  AnswerInv'
<1>1. ASSUME NEW x \in Slots, HasAnswer(job[x])' PROVE Backed(job[x].task)'
  <2>1. CASE job'[x] = job[x]
    <3>1. HasAnswer(job[x])
      BY <1>1, <2>1, Zenon DEF HasAnswer
    <3>2. job[x].task \in Tasks /\ Backed(job[x].task)
      BY <3>1, Zenon DEF HasAnswer, JobInv, JobOK, AnswerInv
    <3>3. \A u \in Tasks : Backed(u) => Backed(u)'
      BY Zenon DEF Steady
    <3>4. PICK u \in Tasks : u = job[x].task /\ u = job'[x].task
      BY <2>1, <3>2, Zenon
    <3>5. Backed(u)'
      BY <3>2, <3>3, <3>4, Zenon
    <3> QED  BY <3>4, <3>5, Zenon DEF Backed
  <2> QED  BY <1>1, <2>1, Zenon DEF HasAnswer
<1>2. ASSUME NEW t \in Tasks, result'[t].status = "succeeded" PROVE Backed(t)'
  BY <1>2, Zenon DEF AnswerInv, Steady
<1> QED  BY <1>1, <1>2, Zenon DEF AnswerInv

\* A recorded result leaves the number of attempts alone.
LEMMA RecordCount ==
  ASSUME ResultInv, NEW t \in Tasks, NEW status \in Terminal, NEW res, Record(t, status, res)
  PROVE  /\ \A u \in Tasks : task'[u].count = task[u].count
         /\ \A u \in Tasks : result'[u] = IF u = t THEN res ELSE result[u]
<1> DEFINE row == [task[t] EXCEPT !.status = status, !.owner = NoWorker, !.live = FALSE]
<1>1. task[t] \in TaskRow
  BY Zenon DEF ResultInv
<1>2. row.count = task[t].count
  BY <1>1, Zenon DEF TaskRow
<1>3. task' = [task EXCEPT ![t] = row]
  BY Zenon DEF Record
<1> HIDE DEF row
<1>4. \A u \in Tasks : task'[u].count = task[u].count
  BY <1>2, <1>3, Zenon DEF ResultInv
<1>5. \A u \in Tasks : result'[u] = IF u = t THEN res ELSE result[u]
  BY Zenon DEF ResultInv, Record
<1> QED  BY <1>4, <1>5

LEMMA DefaultCount ==
  ASSUME ResultInv, NEW t \in Tasks, RecordDefault(t)
  PROVE  /\ \A u \in Tasks : task'[u].count = task[u].count
         /\ \A u \in Tasks : result'[u].status = "succeeded" => result[u].status = "succeeded"
<1> DEFINE res == [digest |-> "default", status |-> "failed", apply |-> "pending"]
<1>1. Record(t, "defaulted", res) /\ "defaulted" \in Terminal /\ res.status = "failed"
  BY Zenon DEF RecordDefault, Terminal
<1> HIDE DEF res
<1> QED  BY <1>1, RecordCount

\* The coordinator, the clock, the finalizer and the applicator.
LEMMA CallTaskStep ==
  ASSUME BaseInv, CallInv, AnswerInv, NEW t \in Tasks, TaskStep(t)
  PROVE  CallInv' /\ AnswerInv'
<1>0. ResultInv /\ JobInv /\ task[t] \in TaskRow /\ result[t] \in ResultRow
  BY Zenon DEF BaseInv, ResultInv
<1>1. UNCHANGED <<job, attempt>>
  BY Zenon DEF TaskStep, create_task, DeadlinePasses, LeaseExpires, finalize_expired_agent_task,
       apply_arena_agent_task_result
<1>2. JobInv'
  BY <1>0, <1>1, Zenon DEF JobInv, JobOK
<1>3. /\ \A u \in Tasks : task'[u].count = task[u].count
      /\ \A u \in Tasks : result'[u].status = "succeeded" => result[u].status = "succeeded"
  <2>1. CASE create_task(t)
    BY <2>1, <1>0, Zenon DEF create_task, ResultInv, TaskRow
  <2>2. CASE DeadlinePasses(t)
    BY <2>2, Zenon DEF DeadlinePasses
  <2>3. CASE LeaseExpires(t)
    BY <2>3, <1>0, Zenon DEF LeaseExpires, ResultInv, TaskRow
  <2>4. CASE finalize_expired_agent_task(t)
    BY <2>4, <1>0, DefaultCount, Zenon DEF finalize_expired_agent_task
  <2>5. CASE apply_arena_agent_task_result(t)
    <3>1. PICK outcome : task' = task /\ result' = [result EXCEPT ![t].apply = outcome]
      BY <2>5, Zenon DEF apply_arena_agent_task_result
    <3> QED  BY <3>1, <1>0, Zenon DEF ResultInv, ResultRow
  <2> QED  BY <2>1, <2>2, <2>3, <2>4, <2>5, Zenon DEF TaskStep
<1>4. CallInv' /\ Steady
  BY <1>0, <1>1, <1>2, <1>3, QuietStep, Zenon
<1>5. AnswerInv'
  BY <1>0, <1>1, <1>3, <1>4, AnswerStep, Zenon
<1> QED  BY <1>4, <1>5

\* A submission: a success goes into the sink only from a coroutine that has it.
LEMMA SubmitCall ==
  ASSUME BaseInv, CallInv, AnswerInv, NEW s \in Slots, job[s].pc # "idle",
         NEW digest, NEW status \in {"succeeded", "failed"},
         status = "succeeded" => HasAnswer(job[s]),
         submit_hosted_agent_task_result(s, digest, status)
  PROVE  CallInv' /\ AnswerInv'
<1> DEFINE t == job[s].task
           res == [digest |-> digest, status |-> status, apply |-> "pending"]
           final == IF status = "succeeded" THEN "completed" ELSE "defaulted"
<1>0. ResultInv /\ JobInv /\ t \in Tasks
  BY Zenon DEF BaseInv, JobInv, JobOK
<1>1. JobInv' /\ OnlyMoves(s) /\ job'[s] = Idle /\ attempt' = attempt
  BY <1>0, EndsMove, Zenon DEF submit_hosted_agent_task_result
<1>2. job'[s].pc \notin Numbered /\ ~HasAnswer(job'[s])
  BY <1>1 DEF Idle, At, Numbered, HasAnswer
<1>3. /\ \A u \in Tasks : task'[u].count = task[u].count
      /\ \A u \in Tasks : result'[u].status = "succeeded" =>
            result[u].status = "succeeded" \/ (u = t /\ status = "succeeded")
  <2>1. CASE UNCHANGED <<task, result>>
    BY <2>1, Zenon
  <2>2. CASE RecordDefault(t)
    BY <2>2, <1>0, DefaultCount, Zenon
  <2>3. CASE Record(t, final, res)
    <3>1. final \in Terminal /\ res.status = status
      BY Zenon DEF Terminal
    <3> HIDE DEF final, res
    <3> QED  BY <2>3, <3>1, <1>0, RecordCount
  <2> QED  BY <2>1, <2>2, <2>3, Zenon DEF submit_hosted_agent_task_result, submit_agent_task_result
<1>4. CallInv' /\ Steady
  BY <1>0, <1>1, <1>2, <1>3, QuietStep, Zenon DEF OnlyMoves
<1>5. PICK u \in Tasks : u = t
  BY <1>0, Zenon
<1>6. status = "succeeded" => Backed(u)'
  BY <1>4, <1>5, Zenon DEF AnswerInv, Steady
<1>7. AnswerInv'
  <2>1. \A x \in Slots : job'[x] = job[x] \/ ~HasAnswer(job'[x])
    BY <1>1, <1>2, Zenon DEF OnlyMoves
  <2>2. ASSUME NEW v \in Tasks, result'[v].status = "succeeded"
        PROVE  result[v].status = "succeeded" \/ Backed(v)'
    BY <2>2, <1>3, <1>5, <1>6, Zenon
  <2> QED  BY <1>0, <1>4, <2>1, <2>2, AnswerStep, Zenon
<1> QED  BY <1>4, <1>7, Zenon

\* A step in which no attempt, no count and no result changes.
LEMMA PlainStep ==
  ASSUME JobInv, CallInv, AnswerInv, JobInv', UNCHANGED <<attempt, task, result>>,
         \A x \in Slots :
            \/ job'[x] = job[x]
            \/ job'[x].pc \notin Numbered /\ ~HasAnswer(job'[x])
            \/ /\ job[x].pc \in {"execute", "load"} /\ job'[x].pc \in {"load", "start"}
               /\ job'[x].task = job[x].task /\ job'[x].number = job[x].number
  PROVE  CallInv' /\ AnswerInv'
<1>1. CallInv' /\ Steady
  BY QuietStep, Zenon
<1>2. \A x \in Slots : job'[x] = job[x] \/ ~HasAnswer(job'[x])
  BY Zenon DEF HasAnswer
<1>3. AnswerInv'
  BY <1>1, <1>2, AnswerStep, Zenon
<1> QED  BY <1>1, <1>3, Zenon

\* A coroutine that ends has nothing.
LEMMA IdleQuiet == Idle.pc \notin Numbered /\ ~HasAnswer(Idle)
BY Zenon DEF Idle, At, Numbered, HasAnswer

\* A coroutine.
LEMMA CallSlotStep ==
  ASSUME BaseInv, CallInv, AnswerInv, NEW s \in Slots, SlotStep(s)
  PROVE  CallInv' /\ AnswerInv'
<1>0. ResultInv /\ JobInv
  BY Zenon DEF BaseInv
<1>j. JobInv'
  BY BaseSlotStep, Zenon DEF BaseInv
<1>1. CASE prepare_reclaimed_hosted_task(s)
  <2>1. CallInv' /\ Steady
    BY <1>1, PrepareCall, Zenon
  <2>2. \A x \in Slots : job'[x] = job[x] \/ ~HasAnswer(job'[x])
    BY <1>0, <1>1, PrepareMove, Zenon DEF HasAnswer
  <2>3. result' = result
    BY <1>1, Zenon DEF prepare_reclaimed_hosted_task
  <2> QED  BY <1>0, <2>1, <2>2, <2>3, AnswerStep, Zenon
<1>2. CASE ClaimRaises(s)
  <2>1. \A x \in Slots : job'[x] = job[x] \/ job'[x] = Idle
    BY <1>0, <1>2, RaisesMove, Zenon
  <2>2. UNCHANGED <<attempt, task, result>>
    BY <1>2, Zenon DEF ClaimRaises, dbVars
  <2> QED  BY <1>0, <1>j, <2>1, <2>2, IdleQuiet, PlainStep, Zenon
<1>3. CASE ReportRecovered(s)
  BY <1>3, SubmitCall, Zenon DEF ReportRecovered
<1>4. CASE load_hosted_agent_runtime_context(s)
  <2>1. /\ OnlyMoves(s) /\ job[s].pc = "load"
        /\ \/ job'[s] = Idle
           \/ job'[s].pc = "start" /\ job'[s].task = job[s].task /\ job'[s].number = job[s].number
    BY <1>0, <1>4, LoadMove, Zenon DEF load_hosted_agent_runtime_context
  <2>2. UNCHANGED <<attempt, task, result>>
    BY <1>4, Zenon DEF load_hosted_agent_runtime_context
  <2> QED  BY <1>0, <1>j, <2>1, <2>2, IdleQuiet, PlainStep DEF OnlyMoves
<1>5. CASE PreflightFails(s)
  <2>1. OnlyMoves(s) /\ job'[s].pc = "preflight"
    BY <1>0, <1>5, PreflightMove, Zenon
  <2>2. UNCHANGED <<attempt, task, result>>
    BY <1>5, Zenon DEF PreflightFails, dbVars
  <2>3. job'[s].pc \notin Numbered /\ ~HasAnswer(job'[s])
    BY <2>1, Zenon DEF Numbered, HasAnswer
  <2> QED  BY <1>0, <1>j, <2>1, <2>2, <2>3, PlainStep, Zenon DEF OnlyMoves
<1>6. CASE SubmitPreflightFailure(s)
  BY <1>6, SubmitCall, Zenon DEF SubmitPreflightFailure
<1>7. CASE start_agent_task_attempt(s)
  <2>1. CallInv' /\ Steady
    BY <1>7, StartCall, Zenon
  <2>2. OnlyMoves(s) /\ ~HasAnswer(job'[s])
    <3>1. job[s].pc \in Numbered
      BY <1>7, Zenon DEF start_agent_task_attempt, Numbered
    <3>2. CASE Ends(s)
      BY <1>0, <3>2, EndsMove, IdleQuiet, Zenon
    <3>3. CASE Goes(s, "mark")
      BY <1>0, <3>1, <3>3, GoesMove, Zenon DEF HasAnswer
    <3> QED  BY <1>7, <3>2, <3>3, Zenon DEF start_agent_task_attempt
  <2>3. result' = result
    BY <1>7, Zenon DEF start_agent_task_attempt
  <2> QED  BY <1>0, <2>1, <2>2, <2>3, AnswerStep DEF OnlyMoves
<1>8. CASE mark_agent_task_attempt_request_sent(s)
  <2>1. CallInv' /\ Steady
    BY <1>8, MarkCall, Zenon
  <2>2. OnlyMoves(s) /\ ~HasAnswer(job'[s])
    <3>1. job[s].pc \in Numbered
      BY <1>8, Zenon DEF mark_agent_task_attempt_request_sent, Numbered
    <3>2. CASE Ends(s)
      BY <1>0, <3>2, EndsMove, IdleQuiet, Zenon
    <3>3. CASE Goes(s, "call")
      BY <1>0, <3>1, <3>3, GoesMove, Zenon DEF HasAnswer
    <3> QED  BY <1>8, <3>2, <3>3, Zenon DEF mark_agent_task_attempt_request_sent
  <2>3. result' = result
    BY <1>8, Zenon DEF mark_agent_task_attempt_request_sent
  <2> QED  BY <1>0, <2>1, <2>2, <2>3, AnswerStep DEF OnlyMoves
<1>9. ASSUME NEW outcome \in {"succeeded", "invalid", "failed", "unknown"},
             complete_pydantic_agent_task_attempt(s, outcome)
      PROVE  CallInv' /\ AnswerInv'
  <2>1. /\ CallInv' /\ Steady
        /\ job'[s].pc = "stage" => job'[s].task = job[s].task /\ Backed(job[s].task)'
    BY <1>9, CompleteCall, Zenon
  <2>2. OnlyMoves(s) /\ (~HasAnswer(job'[s]) \/ job'[s].pc = "stage")
    BY <1>0, <1>9, CompleteMove, IdleQuiet, Zenon DEF HasAnswer
  <2>3. result' = result
    BY <1>9, Zenon DEF complete_pydantic_agent_task_attempt
  <2> QED  BY <1>0, <2>1, <2>2, <2>3, AnswerStep DEF OnlyMoves
<1>10. CASE stage_hosted_agent_memory_patch(s)
  <2>1. OnlyMoves(s) /\ job'[s].pc = "submit" /\ job'[s].task = job[s].task
    BY <1>0, <1>10, StageMove, Zenon DEF stage_hosted_agent_memory_patch, Continues, At, JobInv
  <2>2. UNCHANGED <<attempt, task, result>> /\ HasAnswer(job[s]) /\ job[s].task \in Tasks
    BY <1>0, <1>10, Zenon DEF stage_hosted_agent_memory_patch, HasAnswer, JobInv, JobOK
  <2>3. job'[s].pc \notin Numbered
    BY <2>1, Zenon DEF Numbered
  <2>4. CallInv' /\ Steady
    BY <1>0, <1>j, <2>1, <2>2, <2>3, QuietStep, Zenon DEF OnlyMoves
  <2>5. Backed(job[s].task)'
    BY <2>1, <2>2, Zenon DEF AnswerInv, Backed
  <2> QED  BY <1>0, <2>1, <2>2, <2>4, <2>5, AnswerStep, Zenon DEF OnlyMoves
<1>11. CASE SubmitResult(s)
  <2>1. job[s].status \in {"succeeded", "failed"} /\ job[s].pc # "idle"
    BY <1>0, <1>11, Zenon DEF SubmitResult, JobInv, JobOK
  <2>2. job[s].status = "succeeded" => HasAnswer(job[s])
    BY <1>11, Zenon DEF SubmitResult, HasAnswer
  <2> QED  BY <1>11, <2>1, <2>2, SubmitCall, Zenon DEF SubmitResult
<1>12. CASE Abandon(s)
  <2>1. OnlyMoves(s) /\ job'[s] = Idle
    BY <1>0, <1>12, EndsMove, Zenon DEF Abandon
  <2>2. UNCHANGED <<attempt, task, result>>
    BY <1>12, Zenon DEF Abandon, dbVars
  <2> QED  BY <1>0, <1>j, <2>1, <2>2, IdleQuiet, PlainStep DEF OnlyMoves
<1> QED
  BY <1>1, <1>2, <1>3, <1>4, <1>5, <1>6, <1>7, <1>8, <1>9, <1>10, <1>11, <1>12, Zenon DEF SlotStep

\* A claim takes tasks with their attempts as they are.
LEMMA CallClaimStep ==
  ASSUME BaseInv, CallInv, AnswerInv, NEW w \in Workers, NEW S \in SUBSET Tasks,
         claim_hosted_agent_tasks_v2(w, S)
  PROVE  CallInv' /\ AnswerInv'
<1>0. JobInv /\ JobInv'
  BY BaseClaimStep, Zenon DEF BaseInv
<1>1. ASSUME NEW t \in Tasks PROVE task'[t].count = task[t].count
  <2>1. task[t] \in TaskRow
    BY Zenon DEF BaseInv, ResultInv
  <2>2. [task[t] EXCEPT !.status = "leased", !.owner = w, !.live = TRUE].count = task[t].count
    BY <2>1, Zenon DEF TaskRow
  <2> QED  BY <2>2, Zenon DEF claim_hosted_agent_tasks_v2
<1>2. attempt' = attempt /\ result' = result
  BY Zenon DEF claim_hosted_agent_tasks_v2
<1>3. \A x \in Slots : job'[x] = job[x] \/ (job'[x].pc \notin Numbered /\ ~HasAnswer(job'[x]))
  BY <1>0, ClaimMove, Zenon DEF Numbered, HasAnswer
<1>4. CallInv' /\ Steady
  BY <1>0, <1>1, <1>2, <1>3, QuietStep, Zenon
<1> QED  BY <1>0, <1>2, <1>3, <1>4, AnswerStep, Zenon

\* With BaseInv the two invariants are inductive.
LEMMA CallStep ==
  BaseInv /\ CallInv /\ AnswerInv /\ [Next]_vars => CallInv' /\ AnswerInv'
<1> SUFFICES ASSUME BaseInv, CallInv, AnswerInv, [Next]_vars PROVE CallInv' /\ AnswerInv'
  BY Zenon
<1>0. JobInv /\ JobInv'
  BY BaseStep, Zenon DEF BaseInv
<1>1. CASE UNCHANGED <<attempt, task, result, job>>
  BY <1>0, <1>1, PlainStep, Zenon
<1>2. ASSUME NEW w \in Workers, Crash(w) PROVE CallInv' /\ AnswerInv'
  <2>1. \A x \in Slots : job'[x] = job[x] \/ job'[x] = Idle
    BY <1>0, <1>2, CrashMove, Zenon
  <2>2. UNCHANGED <<attempt, task, result>>
    BY <1>2, Zenon DEF Crash, dbVars
  <2> QED  BY <1>0, <2>1, <2>2, IdleQuiet, PlainStep, Zenon
<1>3. project_hosted_agent_memory_patches => UNCHANGED <<attempt, task, result, job>>
  BY Zenon DEF project_hosted_agent_memory_patches
<1>4. UNCHANGED vars => UNCHANGED <<attempt, task, result, job>>
  BY Zenon DEF vars
<1> QED
  BY <1>1, <1>2, <1>3, <1>4, CallTaskStep, CallSlotStep, CallClaimStep, Zenon DEF Next

\* The three invariants hold throughout.
THEOREM CallAlways == Spec => [](BaseInv /\ CallInv /\ AnswerInv)
<1>1. Init => BaseInv /\ CallInv /\ AnswerInv
  BY ResultInit, JobInit, CallInit, Zenon DEF BaseInv
<1>2. BaseInv /\ CallInv /\ AnswerInv /\ [Next]_vars => (BaseInv /\ CallInv /\ AnswerInv)'
  BY BaseStep, CallStep, Zenon
<1> QED  BY <1>1, <1>2, PTL DEF Spec

\* NoBlindRepeat: however leases run out and coroutines stall, at most one of
\* them asks the model for a task, and a second time only after a failure.
THEOREM NeverAskedBlindly == Spec => []NoBlindRepeat
<1>1. BaseInv /\ CallInv => NoBlindRepeat
  <2> SUFFICES ASSUME BaseInv, CallInv PROVE NoBlindRepeat
    BY Zenon
  <2>1. ASSUME NEW s \in Slots, NEW x \in Slots, job[s].pc = "call", job[x].pc = "call",
               job[s].task = job[x].task
        PROVE  s = x
    <3> DEFINE t == job[s].task
    <3>1. t \in Tasks /\ job[s].number \in 1 .. 2 /\ job[x].number \in 1 .. 2
      BY <2>1, Zenon DEF BaseInv, JobInv, JobOK, Numbered, Numbers, MaxAttempts
    <3>2. task[t].count \in 0 .. 2
      BY <3>1, Zenon DEF BaseInv, ResultInv, TaskRow, MaxAttempts
    <3>3. job[s].number <= task[t].count /\ job[x].number <= task[t].count
      BY <2>1, Zenon DEF CallInv, SlotInv, OwnAttempt, Waiting
    <3>4. task[t].count = 2 => attempt[t][1].status = "failed"
      BY <3>1, Zenon DEF CallInv, AttemptInv
    <3>5. /\ attempt[t][job[s].number].status \in {"request_sent", "unknown"}
          /\ attempt[t][job[x].number].status \in {"request_sent", "unknown"}
      BY <2>1, Zenon DEF CallInv, SlotInv, RequestOut
    <3>6. job[s].number = job[x].number
      BY <3>1, <3>2, <3>3, <3>4, <3>5
    <3> QED  BY <2>1, <3>6, Zenon DEF CallInv, SlotInv, SameAttempt, Waiting
  <2>2. ASSUME NEW t \in Tasks, attempt[t][2].status # "none"
        PROVE  attempt[t][1].status = "failed"
    <3>1. 2 \in Numbers /\ task[t].count \in 0 .. 2
      BY DEF Numbers, MaxAttempts, BaseInv, ResultInv, TaskRow
    <3>2. ~(2 > task[t].count)
      BY <2>2, <3>1, Zenon DEF CallInv, AttemptInv
    <3>3. task[t].count = 2
      BY <3>1, <3>2
    <3> QED  BY <3>3, Zenon DEF CallInv, AttemptInv
  <2> QED  BY <2>1, <2>2, Zenon DEF NoBlindRepeat
<1> QED  BY <1>1, CallAlways, PTL

\* SuccessIsBacked: a success in the sink is that of an attempt of the task.
THEOREM AnswersAreBacked == Spec => []SuccessIsBacked
<1>1. AnswerInv => SuccessIsBacked
  BY Zenon DEF AnswerInv, SuccessIsBacked, Backed
<1> QED  BY <1>1, CallAlways, PTL
=============================================================================
