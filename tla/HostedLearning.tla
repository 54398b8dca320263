--------------------------- MODULE HostedLearning ---------------------------
(***************************************************************************)
(* Cross-game learning of one hosted Agent: the revisions of its strategy, *)
(* the learning job that every completed Game leaves behind, and the       *)
(* background pass of the hosted workers that turns a job into a new       *)
(* revision, a rejection or a rollback.  Meanwhile the owner may change    *)
(* the Agent's config, and the Agent plays on.                             *)
(*                                                                         *)
(* Every SQL function is one atomic step; a worker may stall or die        *)
(* between any two of them, for longer than the lease of its job.  Games   *)
(* are numbered in the order they complete, and a Game's number is also    *)
(* that of its job.  Revisions are numbered by revision_no.  Prompts,      *)
(* instructions, lessons and hashes are left out.                          *)
(***************************************************************************)
EXTENDS Integers, FiniteSets, Sequences

LOCAL INSTANCE FiniteSetsExt

CONSTANTS
    Learners,       \* worker_id
    NoLearner,      \* a NULL leased_by
    Configs,        \* the config hashes the owner chooses from
    NoConfig,       \* the config of a learned revision
    Archetype,      \* the archetype of the Agent
    MaxGames,       \* bound of the Games the Agent completes
    MaxRevisions,   \* bound of the revisions the owner's edits may reach
    Evidence,       \* what a completed Game may have to show
    Moves           \* the changes of a parameter the model may propose, in bps

VARIABLES
    config,         \* arena_hosted_configs.config_hash
    revision,       \* hosted_agent_strategy_revisions, by revision_no
    playing,        \* game_agents.hosted_strategy_revision_id of the active Game, or 0
    learning,       \* hosted_agent_learning_jobs, by Game
    evaluation,     \* hosted_agent_strategy_evaluations: Game -> revision_no, or 0
    learner         \* what each worker is about to do

learningVars == <<config, revision, playing, learning, evaluation, learner>>

Games == 1 .. MaxGames
MaxTries == 2

-----------------------------------------------------------------------------
(* The policy surface and its gates, in basis points *)

_ARCHETYPE_ENVELOPES ==
    [aggressive |-> [risk_budget_bps |-> 5000 .. 9000,
                     min_expected_edge_bps |-> 0 .. 2000,
                     max_inventory_concentration_bps |-> 5000 .. 10000,
                     negotiation_concession_bps |-> 700 .. 3000,
                     exploration_bps |-> 1000 .. 5000],
     conservative |-> [risk_budget_bps |-> 1000 .. 5000,
                       min_expected_edge_bps |-> 1000 .. 5000,
                       max_inventory_concentration_bps |-> 2000 .. 7000,
                       negotiation_concession_bps |-> 0 .. 1500,
                       exploration_bps |-> 0 .. 2000],
     balanced |-> [risk_budget_bps |-> 3000 .. 7000,
                   min_expected_edge_bps |-> 500 .. 3000,
                   max_inventory_concentration_bps |-> 4000 .. 8500,
                   negotiation_concession_bps |-> 300 .. 2200,
                   exploration_bps |-> 500 .. 3000],
     custom |-> [risk_budget_bps |-> 1000 .. 9000,
                 min_expected_edge_bps |-> 0 .. 5000,
                 max_inventory_concentration_bps |-> 2000 .. 10000,
                 negotiation_concession_bps |-> 0 .. 3000,
                 exploration_bps |-> 0 .. 5000]]

Dimensions == DOMAIN _ARCHETYPE_ENVELOPES["custom"]
_MAX_SINGLE_GAME_DELTA_BPS == 1000

\* The bounds of the schema are those of a custom Agent.
StrategyPolicyProfile(p) == \A d \in Dimensions : p[d] \in _ARCHETYPE_ENVELOPES["custom"][d]

_DEFAULT_POLICY_PROFILES ==
    [aggressive |-> [risk_budget_bps |-> 7000, min_expected_edge_bps |-> 400,
                     max_inventory_concentration_bps |-> 8500,
                     negotiation_concession_bps |-> 1800, exploration_bps |-> 2500],
     conservative |-> [risk_budget_bps |-> 3500, min_expected_edge_bps |-> 1500,
                       max_inventory_concentration_bps |-> 6000,
                       negotiation_concession_bps |-> 700, exploration_bps |-> 500],
     balanced |-> [risk_budget_bps |-> 5000, min_expected_edge_bps |-> 900,
                   max_inventory_concentration_bps |-> 7500,
                   negotiation_concession_bps |-> 1200, exploration_bps |-> 1200],
     custom |-> [risk_budget_bps |-> 5000, min_expected_edge_bps |-> 1000,
                 max_inventory_concentration_bps |-> 7500,
                 negotiation_concession_bps |-> 1000, exploration_bps |-> 1000]]

\* Every archetype starts inside its own envelope, and the profile the model
\* may return reaches no further than the schema.
ASSUME EnvelopesAssumption ==
    \A a \in DOMAIN _ARCHETYPE_ENVELOPES : \A d \in Dimensions :
        /\ _DEFAULT_POLICY_PROFILES[a][d] \in _ARCHETYPE_ENVELOPES[a][d]
        /\ _ARCHETYPE_ENVELOPES[a][d] \subseteq _ARCHETYPE_ENVELOPES["custom"][d]

ASSUME LearningAssumption ==
    /\ Archetype \in DOMAIN _ARCHETYPE_ENVELOPES
    /\ NoLearner \notin Learners
    /\ MaxGames \in Nat
    /\ MaxRevisions \in Nat
    /\ \A e \in Evidence : e.score \in -10000 .. 10000

default_policy_profile(archetype) == _DEFAULT_POLICY_PROFILES[archetype]

\* Completed Games that show a causal signal: the final prices of every good,
\* counts of actions that agree with the tasks, at least two tasks, an action
\* that is not a pass, a settled trade and a net worth off the average.
evaluate_learning_evidence(e) ==
    /\ e.goods /\ e.ranked
    /\ e.tasks >= e.candidates /\ e.candidates >= 1
    /\ e.applied >= e.candidates /\ e.applied <= e.tasks
    /\ e.defaulted + e.candidates <= e.tasks
    /\ e.tasks >= 2
    /\ e.active >= 1
    /\ e.ahead /\ e.trades >= 1

Within(p) == \A d \in Dimensions : p[d] \in _ARCHETYPE_ENVELOPES[Archetype][d]

Near(p, base) ==
    \A d \in Dimensions :
        LET delta == p[d] - base[d] IN
        delta \in -_MAX_SINGLE_GAME_DELTA_BPS .. _MAX_SINGLE_GAME_DELTA_BPS

\* Mutant: the envelope of the archetype is not looked at.
evaluate_learning_proposal_DeltaOnly(e, base, p) ==
    Near(p, base) /\ evaluate_learning_evidence(e)
evaluate_learning_proposal(e, base, p) ==
    Within(p) /\ Near(p, base) /\ evaluate_learning_evidence(e)

-----------------------------------------------------------------------------
(* Revisions *)

OwnRevision(c, parent) ==
    [source |-> "owner", config |-> c, status |-> "active", parent |-> parent,
     profile |-> default_policy_profile(Archetype), game |-> 0]

LearnedRevision(n, parent, profile, status) ==
    [source |-> "learned", config |-> NoConfig, status |-> status, parent |-> parent,
     profile |-> profile, game |-> n]

ActiveRevisions == {k \in DOMAIN revision : revision[k].status = "active"}
ActiveRevision == CHOOSE k \in ActiveRevisions : TRUE
Retired == [k \in DOMAIN revision |->
              IF k \in ActiveRevisions THEN [revision[k] EXCEPT !.status = "superseded"]
              ELSE revision[k]]

NoLearning == [status |-> "absent", tries |-> 0, owner |-> NoLearner, base |-> 0,
          evidence |-> CHOOSE e \in Evidence : TRUE]
CompletedGames == Cardinality({n \in Games : learning[n].status # "absent"})

\* A worker and the job it has in hand: the move it will propose and whether
\* that passed, or whether another attempt is worth while.
LearnerAt(pc, n, move, yes) == [pc |-> pc, game |-> n, move |-> move, yes |-> yes]
LearnerIdle == LearnerAt("idle", 0, 0, FALSE)

LearningInit ==
    /\ config = CHOOSE c \in Configs : TRUE
    /\ revision = << OwnRevision(config, 0) >>
    /\ playing = 0
    /\ learning = [n \in Games |-> NoLearning]
    /\ evaluation = [n \in Games |-> 0]
    /\ learner = [w \in Learners |-> LearnerIdle]

\* The owner's edit, which is refused while the Agent plays.  Going back to an
\* earlier config revives its revision, under the one it replaces.
sync_hosted_agent_strategy_revision(c) ==
    LET old == {k \in DOMAIN revision : revision[k].config = c}
        row == OwnRevision(c, ActiveRevision)
    IN  /\ playing = 0
        /\ c # config
        /\ config' = c
        /\ \/ \E k \in old : revision' = [Retired EXCEPT ![k] = row]
           \/ /\ old = {}
              /\ Len(revision) < MaxRevisions
              /\ revision' = Append(Retired, row)
        /\ UNCHANGED <<playing, learning, evaluation, learner>>

\* Joining a Game freezes the active revision for the whole of it.
JoinGame ==
    /\ playing = 0
    /\ CompletedGames < MaxGames
    /\ playing' = ActiveRevision
    /\ UNCHANGED <<config, revision, learning, evaluation, learner>>

\* The trigger on games: a completed Game leaves one job behind.
enqueue_hosted_agent_learning_jobs ==
    /\ playing # 0
    /\ \E e \in Evidence :
          learning' = [learning EXCEPT ![CompletedGames + 1] =
                          [NoLearning EXCEPT !.status = "pending", !.base = playing, !.evidence = e]]
    /\ playing' = 0
    /\ UNCHANGED <<config, revision, evaluation, learner>>

-----------------------------------------------------------------------------
(* Leases *)

\* A lease that runs out changes no row; it shows when somebody asks.  So a
\* leased job may be found lapsed by any claim, and by its own worker.
Leases == {n \in Games : learning[n].status = "leased"}
Owns(w, n) == n \in Leases /\ learning[n].owner = w

\* A job without its lease, in one of its last states or back in the queue.
Released(row, status) == [row EXCEPT !.status = status, !.owner = NoLearner]

\* Jobs that died twice are written off; then a job is leased.  The oldest one
\* is passed over when its credential is no longer valid, when its not_before
\* has not come, or when another claim has locked it.
claim_hosted_agent_learning_jobs(w) ==
    \E lapsed \in SUBSET Leases :
        LET swept == [n \in Games |->
                        IF n \in lapsed /\ learning[n].tries >= MaxTries
                        THEN Released(learning[n], "failed") ELSE learning[n]]
        IN  /\ learner[w].pc = "idle"
            /\ \/ learning' = swept /\ UNCHANGED learner
               \/ \E n \in Games :
                    /\ learning[n].status = "pending" \/ n \in lapsed
                    /\ learning[n].tries < MaxTries
                    /\ learning' = [swept EXCEPT ![n] =
                                       [@ EXCEPT !.status = "leased", !.tries = @ + 1, !.owner = w]]
                    /\ learner' = [learner EXCEPT ![w] = LearnerAt("load", n, 0, FALSE)]
            /\ UNCHANGED <<config, revision, playing, evaluation>>

\* Unlike the completion, the release does not ask for a running lease.
release_hosted_agent_learning_job(w) ==
    LET n == learner[w].game
        again == learner[w].yes /\ learning[n].tries < MaxTries
    IN  /\ learner[w].pc = "release"
        /\ learning' = IF Owns(w, n)
                       THEN [learning EXCEPT ![n] = Released(@, IF again THEN "pending" ELSE "failed")]
                       ELSE learning
        /\ learner' = [learner EXCEPT ![w] = LearnerIdle]
        /\ UNCHANGED <<config, revision, playing, evaluation>>

-----------------------------------------------------------------------------
(* The worker's background pass over one job *)

LearnerGoes(w, pc, move, yes) ==
    learner' = [learner EXCEPT ![w] = LearnerAt(pc, learner[w].game, move, yes)]
GivesUp(w, retryable) == LearnerGoes(w, "release", 0, retryable)

\* What the model may answer: a profile within the schema.
Moved(base, m) == [base EXCEPT !["risk_budget_bps"] = @ + m]
Proposals(base) == {m \in Moves : StrategyPolicyProfile(Moved(base, m))}

\* The model run ends with a proposal, or with an error that is worth another
\* attempt (a timeout, a rate limit, an unusable answer) or is not.
ExecuteLearner(w, e, base) ==
    \/ \E retryable \in BOOLEAN : GivesUp(w, retryable)
    \/ \E m \in Proposals(base) :
          LearnerGoes(w, "complete", m, evaluate_learning_proposal(e, base, Moved(base, m)))

\* Without a signal the job is completed with the base profile and no model
\* run; the gate rejects it.
NoSignal(w, e, base) ==
    LearnerGoes(w, "complete", 0, evaluate_learning_proposal(e, base, base))

\* The evidence of the job is read and judged, and the model is run on it.
\* Evidence that does not fit its schema fails the job.  An exception, a lost
\* lease among them, gives the job back.  The run itself reads and writes no
\* row, so it is one step with the read.
load_learning_evidence(w) ==
    LET n == learner[w].game
        e == learning[n].evidence
        base == revision[learning[n].base].profile
    IN  /\ learner[w].pc = "load"
        /\ \/ GivesUp(w, TRUE)
           \/ Owns(w, n) /\ GivesUp(w, FALSE)
           \/ Owns(w, n) /\ evaluate_learning_evidence(e) /\ ExecuteLearner(w, e, base)
           \/ Owns(w, n) /\ ~evaluate_learning_evidence(e) /\ NoSignal(w, e, base)
        /\ UNCHANGED <<config, revision, playing, learning, evaluation>>

\* Mutant: the job does not notice that its base was replaced.
StaleBase_Never(n) == FALSE
StaleBase(n) == ActiveRevision # learning[n].base

\* avg(outcome_score_bps) of a revision, as a sum and a count.
ScoresOf(k, evals) == {n \in Games : evals[n] = k}
ScoreSum(k, evals) == MapThenSumSet(LAMBDA n : learning[n].evidence.score, ScoresOf(k, evals))

\* A learned base does worse than its parent by 2000 bps or more.
Regressed(k, evals) ==
    LET own == Cardinality(ScoresOf(k, evals))
        parents == Cardinality(ScoresOf(revision[k].parent, evals))
    IN  /\ revision[k].source = "learned"
        /\ own >= 1 /\ parents >= 1
        /\ ScoreSum(k, evals) * parents
             <= ScoreSum(revision[k].parent, evals) * own - 2000 * own * parents

RollBack(k) == [revision EXCEPT ![k].status = "rejected",
                                ![revision[k].parent].status = "active"]

\* The candidate is added under its base, and takes its place when it passed.
AddCandidate(n, profile, passed) ==
    LET k == learning[n].base IN
    IF passed
    THEN Append([revision EXCEPT ![k].status = "superseded"],
                LearnedRevision(n, k, profile, "active"))
    ELSE Append(revision, LearnedRevision(n, k, profile, "rejected"))

complete_hosted_agent_learning_job(w) ==
    LET n == learner[w].game
        k == learning[n].base
        passed == learner[w].yes
        evals == [evaluation EXCEPT ![n] = k]
        Ends(status) == learning' = [learning EXCEPT ![n] = Released(@, status)]
    IN  /\ learner[w].pc = "complete"
        /\ \/ /\ GivesUp(w, TRUE)
              /\ UNCHANGED <<revision, learning, evaluation>>
           \/ /\ Owns(w, n)
              /\ evaluation' = evals
              /\ \/ /\ StaleBase(n)
                    /\ Ends("superseded")
                    /\ UNCHANGED revision
                 \/ /\ ~StaleBase(n)
                    /\ Regressed(k, evals)
                    /\ revision' = RollBack(k)
                    /\ Ends("rolled_back")
                 \/ /\ ~StaleBase(n)
                    /\ ~Regressed(k, evals)
                    /\ revision' = AddCandidate(n, Moved(revision[k].profile, learner[w].move), passed)
                    /\ Ends(IF passed THEN "activated" ELSE "rejected")
              /\ learner' = [learner EXCEPT ![w] = LearnerIdle]
        /\ UNCHANGED <<config, playing>>

LearnerCrash(w) ==
    /\ learner[w].pc # "idle"
    /\ learner' = [learner EXCEPT ![w] = LearnerIdle]
    /\ UNCHANGED <<config, revision, playing, learning, evaluation>>

-----------------------------------------------------------------------------
LearnerStep(w) ==
    \/ claim_hosted_agent_learning_jobs(w)
    \/ load_learning_evidence(w)
    \/ complete_hosted_agent_learning_job(w)
    \/ release_hosted_agent_learning_job(w)
    \/ LearnerCrash(w)

LearningNext ==
    \/ \E c \in Configs : sync_hosted_agent_strategy_revision(c)
    \/ JoinGame
    \/ enqueue_hosted_agent_learning_jobs
    \/ \E w \in Learners : LearnerStep(w)

LearningSpec == LearningInit /\ [][LearningNext]_learningVars

-----------------------------------------------------------------------------
(* Properties *)

\* The owner's revision that a revision was learned from, however many Games ago.
Foundation[k \in DOMAIN revision] ==
    IF revision[k].source = "owner" THEN k ELSE Foundation[revision[k].parent]

\* There is always one active revision, and it is the owner's current config or
\* was learned from it: no late job, second worker or rollback brings back a
\* strategy the owner has replaced (complete_hosted_agent_learning_job).
StrategyFollowsOwner ==
    /\ Cardinality(ActiveRevisions) = 1
    /\ revision[Foundation[ActiveRevision]].config = config

\* A Game teaches at most once and only what the gates allow: a learned
\* revision that is or was in use stays in the envelope of the archetype, moves
\* no parameter by more than 1000 bps from its base, and comes from a Game with
\* a verified signal, whose job was not retried into a second revision
\* (hosted-arena-agent-spec.md, section 9).
LearnsOnceWithinBounds ==
    /\ \A k \in DOMAIN revision :
          revision[k].source = "learned" /\ revision[k].status \in {"active", "superseded"} =>
              /\ Within(revision[k].profile)
              /\ Near(revision[k].profile, revision[revision[k].parent].profile)
              /\ evaluate_learning_evidence(learning[revision[k].game].evidence)
    /\ \A n \in Games :
          Cardinality({k \in DOMAIN revision : revision[k].game = n}) <=
              (IF learning[n].status \in {"activated", "rejected"} THEN 1 ELSE 0)
=============================================================================
