----------------------------- MODULE HostedTasks -----------------------------
(***************************************************************************)
(* The durable task queue between the game coordinator and the hosted      *)
(* Agent workers: arena_agent_tasks with its leases and its deadline, the  *)
(* attempts of a task, the result sink, the deadline finalizer, the result *)
(* applicator, and the memory patches of a Game Agent.                     *)
(*                                                                         *)
(* A slot is one of the task_concurrency coroutines of a worker process.   *)
(* Every SQL function is one atomic step; a coroutine may stall between    *)
(* any two of them, for longer than its lease.  Time is two facts per      *)
(* task: whether the lease has run out and whether the deadline has        *)
(* passed.  A result is told apart by the identifier it is submitted under *)
(* (the digest) and by whether it succeeded: "failed" also stands for      *)
(* timed_out, which the sink treats alike.  Actions, prompts, messages and *)
(* the rules that accept a candidate action are left out.                  *)
(***************************************************************************)
EXTENDS Integers, FiniteSets, Sequences

CONSTANTS
    Tasks,          \* task_id
    Agents,         \* game_agent_id
    AgentOf,        \* the Game Agent a task asks
    StageOf,        \* the place of a task in the game: decide, negotiate, next round ...
    Workers,        \* worker_id
    NoWorker,       \* a NULL leased_by
    Slots,          \* the coroutines
    WorkerOf,       \* the process a coroutine belongs to
    NoTask,         \* a coroutine that is free
    MaxInflight     \* hosted_provider_capacity.max_inflight, of the one provider modelled

ASSUME HostedAssumption ==
    /\ AgentOf \in [Tasks -> Agents]
    /\ StageOf \in [Tasks -> Nat]
    /\ WorkerOf \in [Slots -> Workers]
    /\ NoWorker \notin Workers
    /\ NoTask \notin Tasks
    /\ MaxInflight \in Nat

VARIABLES
    task,       \* arena_agent_tasks: status, attempt_count, leased_by, lease_expires_at > now
    overdue,    \* the tasks whose deadline_at has passed
    attempt,    \* arena_agent_task_attempts, by task and attempt_no
    result,     \* arena_agent_task_results, with the outcome in arena_applied_agent_actions
    patches,    \* hosted_agent_memory_patches, in the order of created_at
    memory,     \* hosted_agent_game_memory.memory_version
    job         \* what each coroutine is about to do

dbVars == <<task, overdue, attempt, result, patches, memory>>
vars == <<task, overdue, attempt, result, patches, memory, job>>

MaxAttempts == 2
Numbers == 1 .. MaxAttempts

Open == {"queued", "leased", "running"}
Held == {"leased", "running"}
Terminal == {"completed", "defaulted"}

TaskRow == [status : Open \cup Terminal \cup {"absent"},
            count : 0 .. MaxAttempts,
            owner : Workers \cup {NoWorker},
            live : BOOLEAN]
AttemptRow == [status : {"none", "created", "request_sent", "succeeded", "failed", "unknown"},
               worker : Workers \cup {NoWorker}]
ResultRow == [digest : {"none", "run", "preflight", "recovery", "default"},
              status : {"none", "succeeded", "failed"},
              apply : {"none", "pending", "candidate", "fallback"}]
PatchRow == [task : Tasks, version : Nat,
             status : {"pending", "applied", "stale", "discarded"}]
Claiming == {"claimed", "execute", "recover"}
Active == {"load", "start", "preflight", "mark", "call", "stage", "submit", "report"}
Job == [pc : {"idle"} \cup Claiming \cup Active,
        task : Tasks \cup {NoTask},
        number : 0 .. MaxAttempts,
        version : Nat,
        status : {"none", "succeeded", "failed"}]

NoRow == [status |-> "absent", count |-> 0, owner |-> NoWorker, live |-> FALSE]
NoAttempt == [status |-> "none", worker |-> NoWorker]
NoResult == [digest |-> "none", status |-> "none", apply |-> "none"]
At(pc, t, number, version, status) ==
    [pc |-> pc, task |-> t, number |-> number, version |-> version, status |-> status]
Idle == At("idle", NoTask, 0, 0, "none")

Init ==
    /\ task = [t \in Tasks |-> NoRow]
    /\ overdue = {}
    /\ attempt = [t \in Tasks |-> [n \in Numbers |-> NoAttempt]]
    /\ result = [t \in Tasks |-> NoResult]
    /\ patches = <<>>
    /\ memory = [a \in Agents |-> 0]
    /\ job = [s \in Slots |-> Idle]

\* t is leased to w and the lease is running.
Leased(t, w) == task[t].status \in Held /\ task[t].owner = w /\ task[t].live
Running(t, w) == Leased(t, w) /\ task[t].status = "running"

SlotsOf(w) == {s \in Slots : WorkerOf[s] = w}

\* The coroutine ends, with or without an exception.
Ends(s) == job' = [job EXCEPT ![s] = Idle]
Continues(s, j) == job' = [job EXCEPT ![s] = j]
Goes(s, pc) == Continues(s, [job[s] EXCEPT !.pc = pc])

-----------------------------------------------------------------------------
(* The coordinator, the finalizer and the clock *)

\* The coordinator asks an agent for its next action once it has applied the
\* results of the stages before.
create_task(t) ==
    /\ task[t].status = "absent"
    /\ \A u \in Tasks : AgentOf[u] = AgentOf[t] /\ StageOf[u] < StageOf[t]
                            => result[u].apply \in {"candidate", "fallback"}
    /\ task' = [task EXCEPT ![t].status = "queued"]
    /\ UNCHANGED <<overdue, attempt, result, patches, memory, job>>

DeadlinePasses(t) ==
    /\ task[t].status \in Open
    /\ t \notin overdue
    /\ overdue' = overdue \cup {t}
    /\ UNCHANGED <<task, attempt, result, patches, memory, job>>

LeaseExpires(t) ==
    /\ task[t].live
    /\ task' = [task EXCEPT ![t].live = FALSE]
    /\ UNCHANGED <<overdue, attempt, result, patches, memory, job>>

\* The task reaches a terminal status under this result, and its lease goes.
Record(t, status, res) ==
    /\ task' = [task EXCEPT ![t] = [@ EXCEPT !.status = status, !.owner = NoWorker,
                                             !.live = FALSE]]
    /\ result' = [result EXCEPT ![t] = res]

RecordDefault(t) ==
    Record(t, "defaulted", [digest |-> "default", status |-> "failed", apply |-> "pending"])

\* Mutant: a task whose attempt runs is left to its worker.
finalize_expired_agent_task_NotRunning(t) ==
    /\ task[t].status \in Open \ {"running"}
    /\ t \in overdue
    /\ RecordDefault(t)
    /\ UNCHANGED <<overdue, attempt, patches, memory, job>>
finalize_expired_agent_task(t) ==
    /\ task[t].status \in Open
    /\ t \in overdue
    /\ RecordDefault(t)
    /\ UNCHANGED <<overdue, attempt, patches, memory, job>>

\* A successful result applies its candidate action or, when the rules refuse
\* it, the default action of the task kind; any other result the default.
apply_arena_agent_task_result(t) ==
    /\ result[t].apply = "pending"
    /\ \E outcome \in {"candidate", "fallback"} :
        /\ outcome = "candidate" => result[t].status = "succeeded"
        /\ result' = [result EXCEPT ![t].apply = outcome]
    /\ UNCHANGED <<task, overdue, attempt, patches, memory, job>>

-----------------------------------------------------------------------------
(* Memory patches *)

\* The patch belongs to the recorded result of its task and that has been
\* applied, or its task ended without it.
Settled(p) ==
    \/ result[p.task].digest = "run" /\ result[p.task].apply \in {"candidate", "fallback"}
    \/ task[p.task].status = "defaulted"

\* Mutant: an applied default action is learned from too.
Learns_AnyApplied(p) ==
    result[p.task].digest = "run" /\ result[p.task].apply \in {"candidate", "fallback"}
Learns(p) == result[p.task].digest = "run" /\ result[p.task].apply = "candidate"

\* One iteration of the projection loop, on the versions and the patches so far.
ProjectOne(acc, p) ==
    LET a == AgentOf[p.task]
        fits == acc.memory[a] = p.version
        status == CASE p.status # "pending" \/ ~Settled(p) -> p.status
                    [] Learns(p) /\ fits -> "applied"
                    [] Learns(p) /\ ~fits -> "stale"
                    [] OTHER -> "discarded"
    IN  [memory |-> IF p.status = "pending" /\ status = "applied"
                        THEN [acc.memory EXCEPT ![a] = @ + 1] ELSE acc.memory,
         patches |-> Append(acc.patches, [p EXCEPT !.status = status])]

\* The patches of these agents are projected, in order.
Project(agents) ==
    LET after[k \in 0 .. Len(patches)] ==
            IF k = 0 THEN [memory |-> memory, patches |-> <<>>]
            ELSE IF AgentOf[patches[k].task] \in agents THEN ProjectOne(after[k - 1], patches[k])
            ELSE [after[k - 1] EXCEPT !.patches = Append(@, patches[k])]
    IN  after[Len(patches)]

project_hosted_agent_memory_patches ==
    /\ \E k \in 1 .. Len(patches) : patches[k].status = "pending" /\ Settled(patches[k])
    /\ LET done == Project(Agents)
       IN  memory' = done.memory /\ patches' = done.patches
    /\ UNCHANGED <<task, overdue, attempt, result, job>>

-----------------------------------------------------------------------------
(* Claiming *)

Inflight == {t \in Tasks : task[t].status \in Held /\ task[t].live}
Eligible == {t \in Tasks \ overdue :
                \/ task[t].status = "queued"
                \/ task[t].status \in Held /\ ~task[t].live}
Free(w) == {s \in SlotsOf(w) : job[s].pc = "idle"}

\* One poll of run_forever.  A process with a running coroutine polls when one
\* ends; those of tasks outside the model end at any time.  Which eligible
\* tasks come first, and which rows are locked and skipped, is left open: S
\* is what the claim returns.
claim_hosted_agent_tasks_v2(w, S) ==
    /\ \A s \in SlotsOf(w) : job[s].pc \notin Claiming
    /\ S \subseteq Eligible /\ S # {}
    /\ Cardinality(S) <= Cardinality(Free(w))
    /\ Cardinality(S) + Cardinality(Inflight) <= MaxInflight
    /\ task' = [t \in Tasks |-> IF t \in S
                    THEN [task[t] EXCEPT !.status = "leased", !.owner = w, !.live = TRUE]
                    ELSE task[t]]
    /\ \E place \in [S -> Free(w)] :
        /\ \A t, u \in S : place[t] = place[u] => t = u
        /\ job' = [s \in Slots |-> IF \E t \in S : place[t] = s
                    THEN At("claimed", CHOOSE t \in S : place[t] = s, 0, 0, "none")
                    ELSE job[s]]
    /\ UNCHANGED <<overdue, attempt, result, patches, memory>>

\* Every claimed row is prepared before a coroutine starts.
Launch(w, jobs) ==
    IF \E s \in SlotsOf(w) : jobs[s].pc = "claimed" THEN jobs
    ELSE [s \in Slots |-> CASE s \in SlotsOf(w) /\ jobs[s].pc = "execute"
                                -> [jobs[s] EXCEPT !.pc = "load"]
                            [] s \in SlotsOf(w) /\ jobs[s].pc = "recover"
                                -> [jobs[s] EXCEPT !.pc = "report"]
                            [] OTHER -> jobs[s]]

\* Mutant: a request that was sent is taken to have failed.
Interrupted_Failed(status) == IF status \in {"created", "request_sent"} THEN "failed" ELSE status
\* Mutant: an attempt that succeeded is unknown to the next lease.
Interrupted_Forgets(status) ==
    CASE status = "created" -> "failed"
      [] status \in {"request_sent", "succeeded"} -> "unknown"
      [] OTHER -> status
\* What the attempt of an earlier lease is taken to have come to.
Interrupted(status) ==
    CASE status = "created" -> "failed"
      [] status = "request_sent" -> "unknown"
      [] OTHER -> status

prepare_reclaimed_hosted_task(s) ==
    LET t == job[s].task
        w == WorkerOf[s]
        n == task[t].count
        last == Interrupted(attempt[t][n].status)
        execute == n = 0 \/ (last = "failed" /\ n < MaxAttempts)
    IN  /\ job[s].pc = "claimed"
        /\ Leased(t, w) /\ task[t].status = "leased"
        /\ attempt' = IF n = 0 THEN attempt ELSE [attempt EXCEPT ![t][n].status = last]
        /\ task' = IF execute THEN task ELSE [task EXCEPT ![t].status = "running"]
        /\ job' = Launch(w, [job EXCEPT ![s] = IF execute THEN At("execute", t, n + 1, 0, "none")
                                               ELSE At("recover", t, 0, 0, "none")])
        /\ UNCHANGED <<overdue, result, patches, memory>>

\* The lease ran out first: claim_tasks raises and drops the whole claim.
ClaimRaises(s) ==
    LET w == WorkerOf[s] IN
    /\ job[s].pc = "claimed"
    /\ ~(Leased(job[s].task, w) /\ task[job[s].task].status = "leased")
    /\ job' = [x \in Slots |-> IF x \in SlotsOf(w) /\ job[x].pc \in Claiming THEN Idle ELSE job[x]]
    /\ UNCHANGED dbVars

-----------------------------------------------------------------------------
(* The result sink *)

\* Mutant: the sink does not look for an earlier result.
submit_agent_task_result_Overwrites(t, digest, status) ==
    IF t \in overdue THEN RecordDefault(t)
    ELSE Record(t, IF status = "succeeded" THEN "completed" ELSE "defaulted",
                [digest |-> digest, status |-> status, apply |-> "pending"])

\* The first result wins; a duplicate, a conflicting or a late one only
\* leaves an event.
submit_agent_task_result(t, digest, status) ==
    IF result[t] # NoResult \/ task[t].status \in Terminal
        THEN UNCHANGED <<task, result>>
    ELSE IF t \in overdue THEN RecordDefault(t)
    ELSE Record(t, IF status = "succeeded" THEN "completed" ELSE "defaulted",
                [digest |-> digest, status |-> status, apply |-> "pending"])

\* A worker without the lease of an open task gets an exception.
submit_hosted_agent_task_result(s, digest, status) ==
    LET t == job[s].task IN
    /\ IF Running(t, WorkerOf[s]) \/ task[t].status \in Terminal
        THEN submit_agent_task_result(t, digest, status)
        ELSE UNCHANGED <<task, result>>
    /\ Ends(s)
    /\ UNCHANGED <<overdue, attempt, patches, memory>>

-----------------------------------------------------------------------------
(* One coroutine: DurableHostedWorker._execute_task *)

\* A task that may not be executed again is reported as failed.
ReportRecovered(s) ==
    /\ job[s].pc = "report"
    /\ submit_hosted_agent_task_result(s, "recovery", "failed")

\* Mutant: the memory is read without the patches that wait.
load_hosted_agent_runtime_context_NoFold(s) ==
    /\ job[s].pc = "load"
    /\ IF Leased(job[s].task, WorkerOf[s])
        THEN Continues(s, At("start", job[s].task, job[s].number,
                             memory[AgentOf[job[s].task]], "none"))
        ELSE Ends(s)
    /\ UNCHANGED dbVars
\* The patches of the agent are folded before its memory is read.
load_hosted_agent_runtime_context(s) ==
    LET t == job[s].task
        a == AgentOf[t]
        folded == Project({a})
    IN  /\ job[s].pc = "load"
        /\ IF Leased(t, WorkerOf[s])
            THEN /\ memory' = folded.memory
                 /\ patches' = folded.patches
                 /\ Continues(s, At("start", t, job[s].number, folded.memory[a], "none"))
            ELSE Ends(s) /\ UNCHANGED <<memory, patches>>
        /\ UNCHANGED <<task, overdue, attempt, result>>

\* The context, the secret or the model cannot be had, or no time is left.
\* (Both programs that run the worker give it a model factory.)
PreflightFails(s) ==
    /\ job[s].pc = "start"
    /\ Continues(s, At("preflight", job[s].task, 0, 0, "none"))
    /\ UNCHANGED dbVars

SubmitPreflightFailure(s) ==
    /\ job[s].pc = "preflight"
    /\ submit_hosted_agent_task_result(s, "preflight", "failed")

\* attempt_id names the task and the number, so a number that is taken is refused.
start_agent_task_attempt(s) ==
    LET t == job[s].task
        n == job[s].number
    IN  /\ job[s].pc = "start"
        /\ IF Leased(t, WorkerOf[s]) /\ t \notin overdue /\ n = task[t].count + 1
            THEN /\ attempt' = [attempt EXCEPT ![t][n] = [status |-> "created",
                                                          worker |-> WorkerOf[s]]]
                 /\ task' = [task EXCEPT ![t] = [@ EXCEPT !.status = "running", !.count = n]]
                 /\ Goes(s, "mark")
            ELSE Ends(s) /\ UNCHANGED <<attempt, task>>
        /\ UNCHANGED <<overdue, result, patches, memory>>

\* The request goes out only after the row says so.
mark_agent_task_attempt_request_sent(s) ==
    LET t == job[s].task
        n == job[s].number
    IN  /\ job[s].pc = "mark"
        /\ IF attempt[t][n] = [status |-> "created", worker |-> WorkerOf[s]]
              /\ Running(t, WorkerOf[s])
            THEN /\ attempt' = [attempt EXCEPT ![t][n].status = "request_sent"]
                 /\ Goes(s, "call")
            ELSE Ends(s) /\ UNCHANGED attempt
        /\ UNCHANGED <<task, overdue, result, patches, memory>>

\* The model run ends and the attempt is completed.  An answer that comes
\* after the deadline counts as unknown; one without a valid structure may be
\* asked for again while there is time.
complete_pydantic_agent_task_attempt(s, outcome) ==
    LET t == job[s].task
        n == job[s].number
        status == IF outcome = "invalid" THEN "failed" ELSE outcome
        retry == At("load", t, n + 1, 0, "none")
        answer == At("stage", t, 0, job[s].version, "none")
        failure == At("submit", t, 0, 0, "failed")
    IN  /\ job[s].pc = "call"
        /\ outcome = "succeeded" => t \notin overdue
        /\ IF attempt[t][n] = [status |-> "request_sent", worker |-> WorkerOf[s]]
            THEN /\ attempt' = [attempt EXCEPT ![t][n].status = status]
                 /\ \/ outcome = "succeeded" /\ Continues(s, answer)
                    \/ outcome # "succeeded" /\ Continues(s, failure)
                    \/ /\ outcome = "invalid" /\ n < MaxAttempts /\ t \notin overdue
                       /\ Continues(s, retry)
            ELSE Ends(s) /\ UNCHANGED attempt
        /\ UNCHANGED <<task, overdue, result, patches, memory>>

\* One patch per task; a refused one is logged and the result is submitted.
stage_hosted_agent_memory_patch(s) ==
    LET t == job[s].task IN
    /\ job[s].pc = "stage"
    /\ patches' = IF Leased(t, WorkerOf[s]) /\ \A k \in 1 .. Len(patches) : patches[k].task # t
                    THEN Append(patches, [task |-> t, version |-> job[s].version,
                                          status |-> "pending"])
                    ELSE patches
    /\ Continues(s, At("submit", t, 0, 0, "succeeded"))
    /\ UNCHANGED <<task, overdue, attempt, result, memory>>

SubmitResult(s) ==
    /\ job[s].pc = "submit"
    /\ submit_hosted_agent_task_result(s, "run", job[s].status)

\* An exception of a driver or of the database ends a coroutine.
Abandon(s) ==
    /\ job[s].pc \in Active
    /\ Ends(s)
    /\ UNCHANGED dbVars

Crash(w) ==
    /\ \E s \in SlotsOf(w) : job[s].pc # "idle"
    /\ job' = [s \in Slots |-> IF s \in SlotsOf(w) THEN Idle ELSE job[s]]
    /\ UNCHANGED dbVars

-----------------------------------------------------------------------------
SlotStep(s) ==
    \/ prepare_reclaimed_hosted_task(s)
    \/ ClaimRaises(s)
    \/ ReportRecovered(s)
    \/ load_hosted_agent_runtime_context(s)
    \/ PreflightFails(s)
    \/ SubmitPreflightFailure(s)
    \/ start_agent_task_attempt(s)
    \/ mark_agent_task_attempt_request_sent(s)
    \/ \E outcome \in {"succeeded", "invalid", "failed", "unknown"} :
            complete_pydantic_agent_task_attempt(s, outcome)
    \/ stage_hosted_agent_memory_patch(s)
    \/ SubmitResult(s)
    \/ Abandon(s)

TaskStep(t) ==
    \/ create_task(t)
    \/ DeadlinePasses(t)
    \/ LeaseExpires(t)
    \/ finalize_expired_agent_task(t)
    \/ apply_arena_agent_task_result(t)

Next ==
    \/ \E t \in Tasks : TaskStep(t)
    \/ \E s \in Slots : SlotStep(s)
    \/ \E w \in Workers : Crash(w) \/ \E S \in SUBSET Tasks : claim_hosted_agent_tasks_v2(w, S)
    \/ project_hosted_agent_memory_patches

Spec == Init /\ [][Next]_vars

\* The clock runs, and the finalizer and the coordinator keep polling; no
\* worker need ever take a step.
FairSpec ==
    /\ Spec
    /\ \A t \in Tasks :
        /\ WF_vars(DeadlinePasses(t))
        /\ WF_vars(finalize_expired_agent_task(t))
        /\ WF_vars(apply_arena_agent_task_result(t))

-----------------------------------------------------------------------------
(* Properties *)

\* Every row and every coroutine stays within the values the schema and the
\* worker allow.
HostedTypeOK ==
    /\ task \in [Tasks -> TaskRow]
    /\ overdue \subseteq Tasks
    /\ attempt \in [Tasks -> [Numbers -> AttemptRow]]
    /\ result \in [Tasks -> ResultRow]
    /\ patches \in Seq(PatchRow)
    /\ memory \in [Agents -> Nat]
    /\ job \in [Slots -> Job]

\* Whatever workers, recoveries and the finalizer submit after it, the first
\* result of a task is the one that is applied, once: the task keeps its
\* terminal status and the row its content.
FirstResultWins ==
    [][\A t \in Tasks : result[t] # NoResult =>
        /\ task'[t] = task[t]
        /\ result'[t].digest = result[t].digest
        /\ result'[t].status = result[t].status
        /\ result[t].apply # "pending" => result'[t].apply = result[t].apply]_vars

\* The model is never asked twice at once for a task, by workers that each
\* believe they hold its lease, and is asked again only when the first
\* request was not sent or is known to have failed.
NoBlindRepeat ==
    /\ \A s, x \in Slots :
        job[s].pc = "call" /\ job[x].pc = "call" /\ job[s].task = job[x].task => s = x
    /\ \A t \in Tasks : attempt[t][2].status # "none" => attempt[t][1].status = "failed"

\* A success in the sink is the success of an attempt of that task, so the
\* audit trail of attempts explains every accepted answer.
SuccessIsBacked ==
    \A t \in Tasks : result[t].status = "succeeded" =>
        \E n \in Numbers : attempt[t][n].status = "succeeded"

\* The memory version counts the patches that were learned, each from a
\* candidate action that Arena applied and from no default action.
MemoryLearnsApplied ==
    \A a \in Agents :
        LET learned == {k \in 1 .. Len(patches) : AgentOf[patches[k].task] = a
                                                   /\ patches[k].status = "applied"}
        IN  /\ memory[a] = Cardinality(learned)
            /\ \A k \in learned : result[patches[k].task].apply = "candidate"

\* A patch is lost to a newer memory version only when two tasks of one stage
\* overlapped: the fold before a context is frozen leaves none behind.
NoLessonLost ==
    \A k \in 1 .. Len(patches) : patches[k].status = "stale" =>
        \E t \in Tasks \ {patches[k].task} :
            /\ AgentOf[t] = AgentOf[patches[k].task]
            /\ StageOf[t] = StageOf[patches[k].task]

\* A task that was created is answered and its answer applied, if need be by
\* the deadline, even when every worker is gone.
EveryTaskAnswered ==
    \A t \in Tasks : task[t].status = "queued" ~> result[t].apply \in {"candidate", "fallback"}
=============================================================================
