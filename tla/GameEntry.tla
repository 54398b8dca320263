----------------------------- MODULE GameEntry ------------------------------
(***************************************************************************)
(* How the current game is opened, joined, filled with official agents,    *)
(* started, played through its rounds and replaced by the next one         *)
(* (arena_game/postgres.py, current_game_lifecycle.py, official_filler.py, *)
(* orchestrator.py), composed with the control plane of hosted agents.     *)
(*                                                                         *)
(* The actors are users (preflight, mandate, join, withdraw), the loops of *)
(* the production worker (activate and ensure; fill; orchestrate), the     *)
(* operator, the game-coin provisioner and the runtime of a round.  A join *)
(* is one transaction that holds the game row, but it reads the agent's    *)
(* readiness from rows it does not lock: it takes two steps here, between  *)
(* which the control plane may run.  The fill plan and the orchestrator's  *)
(* list are read without locks and used later.                             *)
(*                                                                         *)
(* A user is identified with the one agent it plays with.  Games settle by *)
(* payment (single_eip3009): current_game_join_preflight refuses others.   *)
(***************************************************************************)
EXTENDS HostedAgents

CONSTANTS
    Connector,      \* the agents of users that run on their own machine
    Official,       \* official_agent_pool
    Threshold,      \* start_threshold the worker opens games with
    Seats,          \* max_participants the worker opens games with
    Targets,        \* target counts an operator may set
    MaxAuth,        \* bound: join authorizations per game and user
    Rounds          \* round_count

ASSUME GameEntryAssumption ==
    /\ Agent = Hosted \cup Connector \cup Official
    /\ Hosted \cap Official = {} /\ Connector \cap Official = {}
    /\ Hosted \cap Connector = {}
    /\ Threshold \in 2..Seats
    /\ Targets \subseteq Nat \ {0, 1}
    /\ MaxAuth \in [Game -> [Hosted \cup Connector -> Nat]]
    /\ Game = 1..Cardinality(Game)

VARIABLES
    game,           \* arena402.games with its current round
    pointer,        \* arena402.current_game: the game and its start_threshold
    part,           \* arena402.game_participants
    coins,          \* arena402.game_coin_provisions
    auth,           \* arena402.join_authorizations: the last one of a user
    mandate,        \* arena402.payment_mandates: the last one of a user
    online,         \* the route of each connector agent is ready
    tx,             \* the join transaction that holds the game row
    plan,           \* the fill plan the filler is working through
    todo            \* the game actions orchestrators have read and not yet taken

entryVars == <<game, pointer, part, coins, auth, mandate, online, tx, plan, todo>>
vars == <<controlVars, gameAgent, entryVars>>

Human == Hosted \cup Connector
Open == {"registration", "portfolio_setup"}
NoPart == [status |-> "none", readiness |-> "none", config |-> 0]
NoTx == [game |-> 0, agent |-> "none", config |-> 0]
NoPlan == [game |-> 0, left |-> {}]
NoGame == [phase |-> "none", coin |-> FALSE, min |-> 0, max |-> 0,
           round |-> 0, stage |-> "none", run |-> "none", deals |-> FALSE]

Init ==
    /\ HostedAgentsInit
    /\ gameAgent = [g \in Game |-> [a \in Agent |-> "none"]]
    /\ game = [g \in Game |-> NoGame]
    /\ pointer = [game |-> 0, threshold |-> 0]
    /\ part = [g \in Game |-> [a \in Agent |-> NoPart]]
    /\ coins = [g \in Game |-> [a \in Agent |-> "none"]]
    /\ auth = [g \in Game |-> [a \in Agent |-> [n |-> 0, status |-> "none"]]]
    /\ mandate = [g \in Game |-> [a \in Agent |-> [auth |-> 0, live |-> FALSE]]]
    /\ online = [a \in Connector |-> FALSE]
    /\ tx = NoTx
    /\ plan = NoPlan
    /\ todo = {}

-----------------------------------------------------------------------------
(* Counting participants. *)

(* A seat is taken by every participant that has not withdrawn. *)
Seated(g) == {a \in Agent : part[g][a].readiness \in {"pending", "ready"}}
ReadyIn(p) == {a \in Agent : p[a].readiness = "ready"}
(* Participants as withdrawal and the fill plan count them. *)
Participating(p) == {a \in Agent : /\ p[a].readiness \in {"pending", "ready"}
                                   /\ p[a].status # "cancelled"}

ConnectorReady(a) == online[a]

RuntimeReady(a) ==
    \/ a \in Hosted /\ HostedReady(a)
    \/ a \in Connector /\ ConnectorReady(a)

(* An official agent is enabled, validated and has its wallet throughout. *)
OfficialReady(a) == a \in Official

-----------------------------------------------------------------------------
(* Opening a game. *)

(* The row of a new game, waiting for its first participant.  coin says    *)
(* whether its players need coins minted before they are ready.            *)
_insert_game(g, coin) ==
    game' = [game EXCEPT ![g] = [NoGame EXCEPT !.phase = "registration",
                                               !.coin = coin,
                                               !.min = Threshold, !.max = Seats]]

(* The pointer moves on only from a game that is over. *)
NeedsGame ==
    pointer.game # 0 => game[pointer.game].phase \in {"completed", "cancelled"}

ensure_current_game(coin) ==
    /\ tx = NoTx
    /\ NeedsGame
    /\ pointer.game + 1 \in Game
    /\ _insert_game(pointer.game + 1, coin)
    /\ pointer' = [game |-> pointer.game + 1, threshold |-> Threshold]
    /\ UNCHANGED <<controlVars, gameAgent, part, coins, auth, mandate, online,
                   tx, plan, todo>>

(* The game is still the current one, and nobody has entered it. *)
Configurable(g) ==
    /\ g # 0 /\ tx = NoTx
    /\ game[g].phase = "registration"
    /\ \A a \in Agent : part[g][a] = NoPart

(* Mutant: the pointer keeps its threshold. *)
ConfigureGameOnly(target) ==
    LET g == pointer.game IN
    /\ Configurable(g)
    /\ game' = [game EXCEPT ![g].min = target, ![g].max = target]
    /\ UNCHANGED <<controlVars, gameAgent, pointer, part, coins, auth, mandate,
                   online, tx, plan, todo>>

(* An operator fixes the number of players of a game nobody has entered:   *)
(* threshold and capacity become the target, in the game and the pointer.  *)
configure_current_game_matchmaking(target) ==
    LET g == pointer.game IN
    /\ Configurable(g)
    /\ game' = [game EXCEPT ![g].min = target, ![g].max = target]
    /\ pointer' = [pointer EXCEPT !.threshold = target]
    /\ UNCHANGED <<controlVars, gameAgent, part, coins, auth, mandate, online,
                   tx, plan, todo>>

-----------------------------------------------------------------------------
(* Getting ready to join: an authorization, then a mandate made from it. *)

(* Nothing is given to a user who already has a row in the game, even a    *)
(* withdrawn one.                                                          *)
Eligible(g, u) ==
    /\ g # 0 /\ tx = NoTx
    /\ game[g].phase \in Open
    /\ part[g][u] = NoPart
    /\ Cardinality(Seated(g)) < game[g].max
    /\ RuntimeReady(u)

(* A new authorization ends the one before. *)
current_game_join_preflight(u) ==
    LET g == pointer.game IN
    /\ Eligible(g, u)
    /\ auth[g][u].n < MaxAuth[g][u]
    /\ auth' = [auth EXCEPT ![g][u] = [n |-> @.n + 1, status |-> "pending"]]
    /\ UNCHANGED <<controlVars, gameAgent, game, pointer, part, coins, mandate,
                   online, tx, plan, todo>>

(* The join of u has locked the authorization and the mandate it uses. *)
Joining(g, u) == tx.game = g /\ tx.agent = u

(* Ten minutes pass. *)
AuthorizationExpires(g, u) ==
    /\ auth[g][u].status = "pending"
    /\ ~Joining(g, u)
    /\ auth' = [auth EXCEPT ![g][u].status = "expired"]
    /\ UNCHANGED <<controlVars, gameAgent, game, pointer, part, coins, mandate,
                   online, tx, plan, todo>>

(* One unrevoked mandate per user and game, made from a pending            *)
(* authorization.                                                          *)
create_mandate(g, u) ==
    /\ auth[g][u].status = "pending"
    /\ ~mandate[g][u].live
    /\ ~Joining(g, u)
    /\ mandate' = [mandate EXCEPT ![g][u] = [auth |-> auth[g][u].n, live |-> TRUE]]
    /\ UNCHANGED <<controlVars, gameAgent, game, pointer, part, coins, auth,
                   online, tx, plan, todo>>

(* The user revokes a mandate, at any time; its own expiry is the same. *)
revoke_mandate(g, u) ==
    /\ mandate[g][u].live
    /\ ~Joining(g, u)
    /\ mandate' = [mandate EXCEPT ![g][u].live = FALSE]
    /\ UNCHANGED <<controlVars, gameAgent, game, pointer, part, coins, auth,
                   online, tx, plan, todo>>

-----------------------------------------------------------------------------
(* Starting a game. *)

(* Those who are ready play; those still waiting for their coins do not. *)
StartedParts(p) ==
    [a \in Agent |->
        CASE p[a].readiness = "ready" -> [p[a] EXCEPT !.status = "active"]
          [] p[a].status = "joined" /\ p[a].readiness # "ready" ->
                [p[a] EXCEPT !.status = "cancelled"]
          [] OTHER -> p[a]]

(* Mutant: only the players' rows are written. *)
StartedAgentsKeepsWaiting(p, ga) ==
    [a \in Agent |-> IF p[a].status = "active" THEN "active" ELSE ga[a]]

(* game_agents follow: cancelled with a cancelled participant, active with *)
(* an active one.                                                          *)
StartedAgents(p, ga) ==
    [a \in Agent |-> IF p[a].status \in {"active", "cancelled"}
                     THEN p[a].status ELSE ga[a]]

(* The threshold is looked at again each time a seat becomes ready. *)
Startable(g, p) == Cardinality(ReadyIn(p)) >= game[g].min

(* p and ga are the participants and game_agents the caller's transaction  *)
(* has written.                                                            *)
_start_game_locked(g, p, ga) ==
    /\ game' = [game EXCEPT ![g].phase = "running", ![g].round = 1,
                            ![g].stage = "decide"]
    /\ part' = [part EXCEPT ![g] = StartedParts(p)]
    /\ gameAgent' = [gameAgent EXCEPT ![g] = StartedAgents(StartedParts(p), ga)]

(* The game stays in setup. *)
Wait(g, p, ga) ==
    /\ game' = [game EXCEPT ![g].phase = "portfolio_setup"]
    /\ part' = [part EXCEPT ![g] = p]
    /\ gameAgent' = [gameAgent EXCEPT ![g] = ga]

-----------------------------------------------------------------------------
(* Joining. *)

(* The game row is locked: it takes participants and has a free seat. *)
Joinable(g, a) ==
    /\ tx = NoTx
    /\ game[g].phase \in Open
    /\ part[g][a] = NoPart
    /\ Cardinality(Seated(g)) < game[g].max
    /\ g = pointer.game

(* The mandate is live and made from an authorization still pending. *)
MandateReady(g, a) ==
    /\ mandate[g][a].live
    /\ mandate[g][a].auth = auth[g][a].n
    /\ auth[g][a].status = "pending"

(* Everything a user's join checks.  What it read of a hosted agent is the *)
(* snapshot the participant will play with.                                *)
add_hosted_participant(g, a) ==
    /\ Joinable(g, a)
    /\ MandateReady(g, a)
    /\ HostedReady(a)
    /\ tx' = [game |-> g, agent |-> a, config |-> hosted[a].config]

add_connector_participant(g, a) ==
    /\ Joinable(g, a)
    /\ MandateReady(g, a)
    /\ ConnectorReady(a)
    /\ tx' = [game |-> g, agent |-> a, config |-> 0]

(* The runtime kind of the agent chooses between them. *)
add_current_participant(u) ==
    LET g == pointer.game IN
    /\ g # 0
    /\ \/ u \in Hosted /\ add_hosted_participant(g, u)
       \/ u \in Connector /\ add_connector_participant(g, u)
    /\ UNCHANGED <<controlVars, gameAgent, game, pointer, part, coins, auth,
                   mandate, online, plan, todo>>

(* The rows a join writes: a participant is ready unless it waits for its  *)
(* coins.  A hosted one keeps the configuration that was read.             *)
Readiness(g) == IF game[g].coin THEN "pending" ELSE "ready"

HostedPart(g) ==
    [status |-> "joined", readiness |-> Readiness(g), config |-> tx.config]

ConnectorPart(g) ==
    [status |-> "joined", readiness |-> Readiness(g), config |-> 0]

(* An official agent brings its own authorization and mandate; a user's    *)
(* authorization is consumed.                                              *)
Consumed(g, a) ==
    IF a \in Official
    THEN /\ auth' = [auth EXCEPT ![g][a] = [n |-> 1, status |-> "consumed"]]
         /\ mandate' = [mandate EXCEPT ![g][a] = [auth |-> 1, live |-> TRUE]]
    ELSE /\ auth' = [auth EXCEPT ![g][a].status = "consumed"]
         /\ UNCHANGED mandate

(* The inserts and the commit.  The game starts if this was the seat it    *)
(* waited for, and the filler goes on to its next candidate.               *)
Commit(g, a, row) ==
    LET p == [part[g] EXCEPT ![a] = row]
        ga == [gameAgent[g] EXCEPT ![a] = "joined"]
    IN /\ IF ~game[g].coin /\ Startable(g, p)
          THEN _start_game_locked(g, p, ga) ELSE Wait(g, p, ga)
       /\ coins' = IF game[g].coin THEN [coins EXCEPT ![g][a] = "pending"] ELSE coins
       /\ Consumed(g, a)
       /\ plan' = [plan EXCEPT !.left = @ \ {a}]
       /\ tx' = NoTx
       /\ UNCHANGED <<controlVars, pointer, online, todo>>

HostedCommits ==
    /\ tx # NoTx /\ tx.agent \notin Connector
    /\ Commit(tx.game, tx.agent, HostedPart(tx.game))

ConnectorCommits ==
    /\ tx # NoTx /\ tx.agent \in Connector
    /\ Commit(tx.game, tx.agent, ConnectorPart(tx.game))

(* The process dies or the database refuses the commit: all is undone. *)
JoinAborts ==
    /\ tx # NoTx
    /\ tx' = NoTx
    /\ plan' = IF tx.agent \in Official THEN NoPlan ELSE plan
    /\ UNCHANGED <<controlVars, gameAgent, game, pointer, part, coins, auth,
                   mandate, online, todo>>

(* A connector agent's route comes and goes with its device. *)
RouteChanges(a) ==
    /\ online' = [online EXCEPT ![a] = ~@]
    /\ UNCHANGED <<controlVars, gameAgent, game, pointer, part, coins, auth,
                   mandate, tx, plan, todo>>

-----------------------------------------------------------------------------
(* Coins. *)

(* The provisioner's transactions for a participant are confirmed on chain. *)
ProvisionConfirms(g, a) ==
    /\ coins[g][a] = "pending"
    /\ coins' = [coins EXCEPT ![g][a] = "confirmed"]
    /\ UNCHANGED <<controlVars, gameAgent, game, pointer, part, auth, mandate,
                   online, tx, plan, todo>>

(* Participants of the current game whose coins are there become ready, and *)
(* the game starts when they are enough.  Rows a join has locked are        *)
(* skipped.                                                                *)
Activatable(g) == {a \in Agent : /\ coins[g][a] = "confirmed"
                                 /\ part[g][a].readiness = "pending"
                                 /\ part[g][a].status # "cancelled"}

activate_confirmed_game_coin_provisions ==
    LET g == pointer.game
        p == [a \in Agent |-> IF a \in Activatable(g)
                              THEN [part[g][a] EXCEPT !.readiness = "ready"]
                              ELSE part[g][a]]
    IN /\ g # 0 /\ tx = NoTx
       /\ game[g].phase \in Open
       /\ Activatable(g) # {}
       /\ IF Startable(g, p)
          THEN _start_game_locked(g, p, gameAgent[g]) ELSE Wait(g, p, gameAgent[g])
       /\ UNCHANGED <<controlVars, pointer, coins, auth, mandate, online, tx,
                      plan, todo>>

-----------------------------------------------------------------------------
(* Withdrawing. *)

(* The user's rows end and its mandate is revoked. *)
WithdrawnParts(g, u) ==
    [part[g] EXCEPT ![u] = [@ EXCEPT !.readiness = "withdrawn",
                                     !.status = "cancelled"]]

(* With no participant left that is not official the game is cancelled,    *)
(* with all its rows and mandates.                                         *)
CancelGame(g, p) ==
    /\ game' = [game EXCEPT ![g].phase = "cancelled"]
    /\ part' = [part EXCEPT ![g] =
                   [a \in Agent |-> IF p[a] = NoPart THEN p[a]
                                    ELSE [p[a] EXCEPT !.status = "cancelled"]]]
    /\ gameAgent' = [gameAgent EXCEPT ![g] =
                   [a \in Agent |-> IF p[a] = NoPart THEN @[a] ELSE "cancelled"]]
    /\ mandate' = [mandate EXCEPT ![g] =
                   [a \in Agent |-> IF p[a] = NoPart THEN @[a]
                                    ELSE [@[a] EXCEPT !.live = FALSE]]]

(* Mutants: official agents count as participants that keep the game, and  *)
(* withdrawal from a game that runs.                                       *)
WithdrawCountsOfficials(u) ==
    LET g == pointer.game
        p == WithdrawnParts(g, u)
    IN /\ g # 0 /\ tx = NoTx
       /\ part[g][u].readiness \in {"pending", "ready"}
       /\ game[g].phase \in Open
       /\ IF Participating(p) = {}
          THEN CancelGame(g, p)
          ELSE /\ part' = [part EXCEPT ![g] = p]
               /\ gameAgent' = [gameAgent EXCEPT ![g][u] = "cancelled"]
               /\ mandate' = [mandate EXCEPT ![g][u].live = FALSE]
               /\ UNCHANGED game
       /\ UNCHANGED <<controlVars, pointer, coins, auth, online, tx, plan, todo>>

WithdrawWhileRunning(u) ==
    LET g == pointer.game
        p == WithdrawnParts(g, u)
    IN /\ g # 0 /\ tx = NoTx
       /\ part[g][u].status \in {"joined", "active"}
       /\ IF Participating(p) \cap Human = {}
          THEN CancelGame(g, p)
          ELSE /\ part' = [part EXCEPT ![g] = p]
               /\ gameAgent' = [gameAgent EXCEPT ![g][u] = "cancelled"]
               /\ mandate' = [mandate EXCEPT ![g][u].live = FALSE]
               /\ UNCHANGED game
       /\ UNCHANGED <<controlVars, pointer, coins, auth, online, tx, plan, todo>>

withdraw_current_game_participant(u) ==
    LET g == pointer.game
        p == WithdrawnParts(g, u)
    IN /\ g # 0 /\ tx = NoTx
       /\ part[g][u].readiness \in {"pending", "ready"}
       /\ game[g].phase \in Open
       /\ IF Participating(p) \cap Human = {}
          THEN CancelGame(g, p)
          ELSE /\ part' = [part EXCEPT ![g] = p]
               /\ gameAgent' = [gameAgent EXCEPT ![g][u] = "cancelled"]
               /\ mandate' = [mandate EXCEPT ![g][u].live = FALSE]
               /\ UNCHANGED game
       /\ UNCHANGED <<controlVars, pointer, coins, auth, online, tx, plan, todo>>

-----------------------------------------------------------------------------
(* Filling the free seats with official agents. *)

official_seat_deficit(g) ==
    IF pointer.threshold > Cardinality(Participating(part[g]))
    THEN pointer.threshold - Cardinality(Participating(part[g])) ELSE 0

(* The pool's agents that can play and are not in the game. *)
Candidates(g) == {a \in Official : OfficialReady(a) /\ part[g][a] = NoPart}

(* The plan is FILLING: a human is ready and has waited long enough, and   *)
(* seats below the threshold are neither taken nor being prepared.  It is  *)
(* made without a lock.                                                    *)
official_fill_plan ==
    LET g == pointer.game IN
    /\ plan.left = {}
    /\ g # 0
    /\ game[g].phase \in Open
    /\ Cardinality(ReadyIn(part[g])) < pointer.threshold
    /\ official_seat_deficit(g) > 0
    /\ ReadyIn(part[g]) \cap Human # {}
    /\ \E left \in SUBSET Candidates(g) :
          /\ left # {}
          /\ \/ Cardinality(left) = official_seat_deficit(g)
             \/ left = Candidates(g) /\ Cardinality(left) < official_seat_deficit(g)
          /\ plan' = [game |-> g, left |-> left]
    /\ UNCHANGED <<controlVars, gameAgent, game, pointer, part, coins, auth,
                   mandate, online, tx, todo>>

(* The filler's loop takes a candidate of its plan and joins it; whatever  *)
(* refuses the join ends the cycle.                                        *)
add_official_hosted_participant(a) ==
    /\ tx = NoTx
    /\ a \in plan.left
    /\ IF Joinable(plan.game, a)
       THEN tx' = [game |-> plan.game, agent |-> a, config |-> 0] /\ UNCHANGED plan
       ELSE plan' = NoPlan /\ UNCHANGED tx
    /\ UNCHANGED <<controlVars, gameAgent, game, pointer, part, coins, auth,
                   mandate, online, todo>>

-----------------------------------------------------------------------------
(* Playing the rounds. *)

Players(g) == {a \in Agent : part[g][a].status = "active"}

(* The action a game is waiting for; a failed runtime run has none. *)
actionable_game_actions(g) ==
    IF game[g].phase # "running" THEN {}
    ELSE IF game[g].stage = "decide"
         THEN IF game[g].run = "none" THEN {"enqueue"} ELSE {}
         ELSE IF game[g].run = "completed" /\ ~game[g].deals THEN {"advance"} ELSE {}

(* What the operator is shown the game is waiting for. *)
automation_state(g) ==
    LET run == game[g].run
        waiting == IF run = "failed" THEN "blocked_runtime_failure" ELSE "wait_runtime"
    IN CASE game[g].phase # "running" -> "idle"
         [] game[g].phase = "running" /\ game[g].stage = "decide" ->
               IF run = "none" THEN "enqueue" ELSE waiting
         [] game[g].phase = "running" /\ game[g].stage # "decide" ->
               IF run # "completed" THEN waiting
               ELSE IF game[g].deals THEN "wait_settlement" ELSE "advance"

OrchestratorReads ==
    /\ pointer.game # 0
    /\ LET found == {<<pointer.game, act>> : act \in actionable_game_actions(pointer.game)}
       IN found \ todo # {} /\ todo' = todo \cup found
    /\ UNCHANGED <<controlVars, gameAgent, game, pointer, part, coins, auth,
                   mandate, online, tx, plan>>

(* One run per round: a second request finds the row there. *)
enqueue_agent_runtime_run(g) ==
    /\ IF /\ game[g].stage = "decide" /\ game[g].run = "none"
          /\ Cardinality(Players(g)) >= 2
       THEN game' = [game EXCEPT ![g].run = "queued"]
       ELSE UNCHANGED game
    /\ UNCHANGED <<part, gameAgent>>

(* The state a round must be in to be closed, looked at again under the    *)
(* lock of the game row.                                                   *)
RoundOver(g) ==
    /\ game[g].phase = "running"
    /\ game[g].stage = "negotiate"
    /\ game[g].run = "completed"
    /\ ~game[g].deals

_open_next_round(g) ==
    /\ game' = [game EXCEPT ![g].round = @ + 1, ![g].stage = "decide",
                            ![g].run = "none"]
    /\ UNCHANGED <<part, gameAgent>>

(* The ready players' rows end with the game. *)
Completed(g) ==
    /\ part' = [part EXCEPT ![g] =
                   [a \in Agent |-> IF /\ @[a].readiness = "ready"
                                       /\ @[a].status = "active"
                                    THEN [@[a] EXCEPT !.status = "completed"]
                                    ELSE @[a]]]
    /\ gameAgent' = [gameAgent EXCEPT ![g] =
                   [a \in Agent |-> IF part[g][a].readiness = "ready"
                                    THEN "completed" ELSE @[a]]]

_finalize_game(g) ==
    /\ game' = [game EXCEPT ![g].phase = "completed", ![g].stage = "completed"]
    /\ Completed(g)

advance_round_or_game(g) ==
    IF ~RoundOver(g) THEN UNCHANGED <<game, part, gameAgent>>
    ELSE IF game[g].round < Rounds THEN _open_next_round(g)
    ELSE _finalize_game(g)

(* An orchestrator takes an action it has read; another one may have read  *)
(* it too and take it later.                                               *)
OrchestratorActs(g, act) ==
    /\ tx = NoTx
    /\ <<g, act>> \in todo
    /\ IF act = "enqueue" THEN enqueue_agent_runtime_run(g) ELSE advance_round_or_game(g)
    /\ todo' \in {todo, todo \ {<<g, act>>}}
    /\ UNCHANGED <<controlVars, pointer, coins, auth, mandate, online, tx, plan>>

(* The market round runs to its end, with deals still to be settled or     *)
(* none, or fails.                                                         *)
RuntimeEnds(g) ==
    /\ game[g].run = "queued"
    /\ \/ \E deals \in BOOLEAN :
             game' = [game EXCEPT ![g].run = "completed", ![g].stage = "negotiate",
                                  ![g].deals = deals]
       \/ game' = [game EXCEPT ![g].run = "failed"]
    /\ UNCHANGED <<controlVars, gameAgent, pointer, part, coins, auth, mandate,
                   online, tx, plan, todo>>

SettlementsEnd(g) ==
    /\ game[g].deals
    /\ game' = [game EXCEPT ![g].deals = FALSE]
    /\ UNCHANGED <<controlVars, gameAgent, pointer, part, coins, auth, mandate,
                   online, tx, plan, todo>>

-----------------------------------------------------------------------------
(* What users, the loops of the worker and the world outside do.           *)
(* Authorizations, mandates and coins of a game that is no longer current  *)
(* are read by nothing here and are left as they are.                      *)
PlayerRequest(u) ==
    \/ current_game_join_preflight(u)
    \/ add_current_participant(u)
    \/ withdraw_current_game_participant(u)

MandateRequest(g, u) == create_mandate(g, u) \/ revoke_mandate(g, u)

CurrentGameLoop ==
    \/ activate_confirmed_game_coin_provisions
    \/ \E coin \in BOOLEAN : ensure_current_game(coin)

OfficialFillLoop ==
    \/ official_fill_plan
    \/ \E a \in Official : add_official_hosted_participant(a)

Orchestrator ==
    \/ OrchestratorReads
    \/ \E g \in Game, act \in {"enqueue", "advance"} : OrchestratorActs(g, act)

World ==
    \/ \E a \in Connector : RouteChanges(a)
    \/ \E g \in Game \cap {pointer.game}, u \in Human : AuthorizationExpires(g, u)
    \/ \E g \in Game \cap {pointer.game}, a \in Agent : ProvisionConfirms(g, a)
    \/ \E g \in Game : RuntimeEnds(g) \/ SettlementsEnd(g)
    \/ JoinAborts

Next ==
    \/ \E a \in Hosted : ControlPlane(a) /\ UNCHANGED entryVars
    \/ \E u \in Human : PlayerRequest(u)
    \/ \E g \in Game \cap {pointer.game}, u \in Human : MandateRequest(g, u)
    \/ \E target \in Targets : configure_current_game_matchmaking(target)
    \/ HostedCommits \/ ConnectorCommits
    \/ CurrentGameLoop
    \/ OfficialFillLoop
    \/ Orchestrator
    \/ World

Spec == Init /\ [][Next]_vars

-----------------------------------------------------------------------------
GameEntryTypeOK ==
    /\ HostedAgentsTypeOK
    /\ pointer \in [game : 0..Cardinality(Game), threshold : Nat]
    /\ part \in [Game -> [Agent -> [config : 0..MaxConfig,
             status : {"none", "joined", "active", "completed", "cancelled"},
             readiness : {"none", "pending", "ready", "withdrawn"}]]]
    /\ coins \in [Game -> [Agent -> {"none", "pending", "confirmed"}]]
    /\ plan.left \subseteq Official

(* No game is played by official agents alone: a game that is running or   *)
(* has been played has a user's agent among its players, and one that is   *)
(* being set up has a user waiting in it.  The fill plan counts a ready    *)
(* user without holding a lock, users may withdraw while its candidates    *)
(* are still joining, and the threshold counts official seats too: what    *)
(* keeps a user in is the deficit the plan fills and the cancellation by   *)
(* the last withdrawal.                                                    *)
HumanInEveryGame ==
    \A g \in Game :
        /\ game[g].phase \in {"running", "completed"} =>
              \E u \in Human : part[g][u].status \in {"active", "completed"}
        /\ game[g].phase = "portfolio_setup" => Participating(part[g]) \cap Human # {}

(* The four sets of rows about a seat agree in every state: a player is    *)
(* ready, holds confirmed coins if the game needs them, and came in with a *)
(* consumed authorization and the mandate made from it; the game_agents    *)
(* row, which the runtime and the control plane go by, has the status of   *)
(* the participant row; there are never more seats than the game has, nor  *)
(* fewer players than it needs.                                            *)
SeatsBacked ==
    /\ GameEntryTypeOK
    /\ \A g \in Game :
           /\ Cardinality(Participating(part[g])) <= game[g].max
           /\ game[g].phase = "running" => Cardinality(Players(g)) >= game[g].min
           /\ \A a \in Agent :
                 /\ gameAgent[g][a] = part[g][a].status
                 /\ part[g][a].readiness = "ready" /\ game[g].coin => coins[g][a] = "confirmed"
                 /\ part[g][a].status \in {"joined", "active", "completed"} =>
                       /\ auth[g][a].status = "consumed"
                       /\ mandate[g][a].auth = auth[g][a].n
                 /\ part[g][a].status \in {"active", "completed"} =>
                       part[g][a].readiness = "ready"

(* There is one game at a time: only the current game is waiting or being  *)
(* played, its threshold is the pointer's, an older game is over, and no   *)
(* agent keeps a live row in it that would stop its owner from changing    *)
(* its configuration.  The action the orchestrator's one query finds for a *)
(* game is the one the operator is shown, which is worked out otherwise.   *)
OneCurrentGame ==
    /\ pointer.game # 0 => game[pointer.game].min = pointer.threshold
    /\ \A g \in Game \ {pointer.game} : game[g].phase \in {"none", "completed", "cancelled"}
    /\ \A g \in Game, a \in Agent :
          gameAgent[g][a] \in {"joined", "active"} =>
              game[g].phase \in {"portfolio_setup", "running"}
    /\ \A g \in Game :
          actionable_game_actions(g) = {automation_state(g)} \cap {"enqueue", "advance"}

(* Once a game runs its players are fixed until it is over: no join,       *)
(* withdrawal, late confirmation of coins or repeated action of an         *)
(* orchestrator changes who is playing.                                    *)
PlayersFixed ==
    [][\A g \in Game : game[g].phase = "running" =>
          \/ game'[g].phase = "running" /\ Players(g)' = Players(g)
          \/ game'[g].phase = "completed" /\ game[g].round = Rounds
             /\ {a \in Agent : part'[g][a].status = "completed"} = Players(g)]_vars
=============================================================================
