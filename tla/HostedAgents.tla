---------------------------- MODULE HostedAgents ----------------------------
(***************************************************************************)
(* The control plane of hosted agents: a user stores a provider key, makes *)
(* an agent from it, a worker validates the key with the provider, and the *)
(* user may later change the agent's configuration, which is validated in  *)
(* the same way before it takes effect (hosted_agent_control_plane, the    *)
(* validation half of hosted_agent_runtime/postgres_worker.py and the SQL  *)
(* functions of migrations 003 and 013).                                   *)
(*                                                                         *)
(* A configuration is known by a number: 0 before there is one, n for the  *)
(* n-th one accepted.  One agent per user and one credential per agent:    *)
(* the update path never changes the credential of an agent.  Repeating a  *)
(* request under its idempotency key returns the stored answer and is a    *)
(* stuttering step.                                                        *)
(***************************************************************************)
EXTENDS Naturals, FiniteSets

CONSTANTS
    Hosted,         \* the hosted agents of users
    Agent,          \* all agents that may play
    Game,           \* the games, numbered in the order of their creation
    MaxAttempts,    \* max_attempts of a validation job
    MaxConfig       \* bound: configurations per agent

ASSUME HostedAgentsAssumption ==
    /\ Hosted \subseteq Agent
    /\ MaxAttempts \in Nat \ {0}
    /\ MaxConfig \in Nat \ {0}

VARIABLES
    cred,           \* arena_model_credentials.status of each hosted agent
    hosted,         \* arena_agents, arena_hosted_configs, arena_runtime_bindings
    job,            \* the last row of hosted_credential_validation_jobs
    gameAgent       \* public.game_agents: the status of each agent in each game

controlVars == <<cred, hosted, job>>

CredStatus == {"absent", "pending_write", "stored", "pending_validation",
               "valid", "invalid"}
RowStatus == {"absent", "provisioning", "ready", "degraded"}
JobStatus == {"none", "queued", "leased", "running", "succeeded", "failed"}

NoJob == [kind |-> "none", status |-> "none", attempt |-> 0, config |-> 0,
          lease |-> FALSE, overdue |-> FALSE]

HostedAgentsTypeOK ==
    /\ cred \in [Hosted -> CredStatus]
    /\ hosted \in [Hosted -> [config : 0..MaxConfig, status : RowStatus,
                              route : RowStatus, updating : BOOLEAN]]
    /\ job \in [Hosted -> [kind : {"none", "create", "update"},
                           status : JobStatus, attempt : 0..MaxAttempts,
                           config : 0..MaxConfig, lease : BOOLEAN,
                           overdue : BOOLEAN]]

HostedAgentsInit ==
    /\ cred = [a \in Hosted |-> "absent"]
    /\ hosted = [a \in Hosted |-> [config |-> 0, status |-> "absent",
                                   route |-> "absent", updating |-> FALSE]]
    /\ job = [a \in Hosted |-> NoJob]

(* The agent has a game_agents row that is joined, active or settling. *)
LiveInGame(a) == \E g \in Game : gameAgent[g][a] \in {"joined", "active"}

-----------------------------------------------------------------------------
(* Credentials and agents, as the API makes them. *)

(* A row is reserved before the secret store is written.  A row that is    *)
(* still pending_write answers its own key with an error for ever; under   *)
(* another key the user gets another row, which is this one again here.    *)
reserve_credential(a) ==
    /\ cred[a] = "absent"
    /\ cred' = [cred EXCEPT ![a] = "pending_write"]
    /\ UNCHANGED <<hosted, job>>

(* The secret is in the store and the row says so, in one transaction with *)
(* the idempotency record.                                                 *)
mark_credential_stored(a) ==
    /\ cred[a] = "pending_write"
    /\ cred' = [cred EXCEPT ![a] = "stored"]
    /\ UNCHANGED <<hosted, job>>

(* create_credential: reserve, write the secret, mark the row.  A failure  *)
(* of the store or of the process between the two leaves the first.        *)
create_credential(a) == reserve_credential(a) \/ mark_credential_stored(a)

(* The candidate's validation job, the only one the agent points to. *)
QueueValidation(a, kind, config) ==
    /\ job' = [job EXCEPT ![a] = [NoJob EXCEPT !.kind = kind,
                                               !.status = "queued",
                                               !.config = config]]
    /\ cred' = [cred EXCEPT ![a] = "pending_validation"]

(* The agent, its configuration and its route, all provisioning. *)
InsertHostedAgent(a) ==
    hosted' = [hosted EXCEPT ![a] = [config |-> 1, status |-> "provisioning",
                                     route |-> "provisioning", updating |-> TRUE]]

(* A credential makes one agent: it must be stored and never used. *)
CredentialUnused(a) == cred[a] = "stored"

create_hosted_agent(a) ==
    /\ CredentialUnused(a)
    /\ InsertHostedAgent(a)
    /\ QueueValidation(a, "create", 1)

(* What update_hosted_agent asks of the agent whose row it has locked: the *)
(* configuration it was asked to replace is the current one, no other job  *)
(* is running and the agent is in no game.                                 *)
Updatable(a) ==
    /\ hosted[a].status = "ready" /\ hosted[a].route = "ready"
    /\ ~hosted[a].updating
    /\ ~LiveInGame(a)
    /\ cred[a] = "valid"

(* The candidate stays in the job; the agent keeps its configuration and   *)
(* its route until the validation has succeeded.                           *)
StageCandidate(a) ==
    /\ hosted' = [hosted EXCEPT ![a].updating = TRUE]
    /\ QueueValidation(a, "update", hosted[a].config + 1)

update_hosted_agent(a) ==
    /\ hosted[a].config < MaxConfig
    /\ Updatable(a)
    /\ StageCandidate(a)

-----------------------------------------------------------------------------
(* The validation worker. *)

(* A job can be claimed while it has attempts and time left, when it waits *)
(* or when the lease of whoever held it has run out.                       *)
claim_credential_validation_jobs(a) ==
    /\ ~job[a].overdue
    /\ job[a].attempt < MaxAttempts
    /\ hosted[a].updating
    /\ cred[a] = "pending_validation"
    /\ \/ job[a].status = "queued"
       \/ job[a].status \in {"leased", "running"} /\ ~job[a].lease
    /\ job' = [job EXCEPT ![a].status = "leased", ![a].lease = TRUE]
    /\ UNCHANGED <<cred, hosted>>

(* The attempt is counted before the provider is called. *)
record_credential_validation_attempt(a) ==
    /\ job[a].status = "leased"
    /\ job[a].lease
    /\ ~job[a].overdue
    /\ job[a].attempt < MaxAttempts
    /\ job' = [job EXCEPT ![a].status = "running", ![a].attempt = @ + 1]
    /\ UNCHANGED <<cred, hosted>>

(* Mutant: games are not looked at. *)
CanCompleteInGame(a) ==
    /\ job[a].status = "running"
    /\ job[a].lease
    /\ hosted[a].updating

(* complete_credential_validation, before it looks at the outcome.  An     *)
(* agent that has meanwhile joined a game makes it raise.                  *)
CanComplete(a) ==
    /\ job[a].status = "running"
    /\ job[a].lease
    /\ hosted[a].updating
    /\ ~LiveInGame(a)

(* The provider accepted the key: the candidate becomes the configuration. *)
ValidationSucceeds(a) ==
    /\ hosted' = [hosted EXCEPT ![a] = [config |-> job[a].config,
                                        status |-> "ready", route |-> "ready",
                                        updating |-> FALSE]]
    /\ cred' = [cred EXCEPT ![a] = "valid"]
    /\ job' = [job EXCEPT ![a] = [NoJob EXCEPT !.kind = job[a].kind,
                                               !.status = "succeeded"]]

(* A transient failure with attempts and time left: the job waits again. *)
ValidationRetries(a) ==
    /\ job[a].attempt < MaxAttempts
    /\ ~job[a].overdue
    /\ job' = [job EXCEPT ![a].status = "queued", ![a].lease = FALSE]
    /\ UNCHANGED <<cred, hosted>>

(* The key is refused, or the last retry failed.  A new agent is degraded  *)
(* and its key invalid; a failed update leaves the agent as it was, and    *)
(* the trigger of migration 013 makes its key valid again.                 *)
ValidationFails(a) ==
    /\ hosted' = [hosted EXCEPT ![a] =
                     IF job[a].kind = "create"
                     THEN [config |-> @.config, status |-> "degraded",
                           route |-> "degraded", updating |-> FALSE]
                     ELSE [@ EXCEPT !.updating = FALSE]]
    /\ cred' = [cred EXCEPT ![a] = IF job[a].kind = "create" THEN "invalid"
                                   ELSE "valid"]
    /\ job' = [job EXCEPT ![a] = [NoJob EXCEPT !.kind = job[a].kind,
                                               !.status = "failed"]]

complete_credential_validation(a) ==
    /\ CanComplete(a)
    /\ ValidationSucceeds(a) \/ ValidationRetries(a) \/ ValidationFails(a)

(* The worker's process dies or is slow: its lease runs out.  The job's    *)
(* own deadline may pass too; nothing ends such a job.                     *)
LeaseExpires(a) ==
    /\ job[a].status \in {"queued", "leased", "running"}
    /\ \/ job[a].lease /\ job' = [job EXCEPT ![a].lease = FALSE]
       \/ ~job[a].overdue /\ job' = [job EXCEPT ![a].overdue = TRUE]
    /\ UNCHANGED <<cred, hosted>>

ControlPlane(a) ==
    /\ \/ create_credential(a)
       \/ create_hosted_agent(a)
       \/ update_hosted_agent(a)
       \/ claim_credential_validation_jobs(a)
       \/ record_credential_validation_attempt(a)
       \/ complete_credential_validation(a)
       \/ LeaseExpires(a)
    /\ UNCHANGED gameAgent

-----------------------------------------------------------------------------
(* What joining a game reads of a hosted agent, without locking its row. *)
HostedReady(a) ==
    /\ hosted[a].status = "ready" /\ hosted[a].route = "ready"
    /\ cred[a] = "valid"

(* The configuration of an agent that is playing never changes under it:   *)
(* complete_credential_validation refuses to install a candidate while the *)
(* agent has a live game_agents row, even if the update was accepted while *)
(* a join was on its way.                                                  *)
ConfigFrozenInGame ==
    [][\A a \in Hosted : LiveInGame(a) => hosted'[a].config = hosted[a].config]_<<hosted, gameAgent>>
=============================================================================
