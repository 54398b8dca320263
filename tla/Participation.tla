---------------------------- MODULE Participation ----------------------------
(***************************************************************************)
(* How an agent that runs behind a local Connector becomes an Arena agent, *)
(* and how its owner takes a seat with it: the route made when a binding   *)
(* is created (PostgresConnectorArenaRegistrar), the route made by         *)
(* POST /api/local-agents and the seat taken by                            *)
(* POST /api/games/{id}/participants, both under an idempotency key        *)
(* (PostgresArenaParticipationRepository).                                 *)
(*                                                                         *)
(* A key's row is written in the transaction that creates its resource, so *)
(* only completed rows are ever seen; an expired row is reset or deleted   *)
(* before it is looked at.  A transaction of an owner holds the owner's    *)
(* advisory lock to its end.  A request that is refused rolls back and is  *)
(* no step.  The agent of a binding is called by the binding's name.  What *)
(* the runtime reports of itself changes freely and is a choice where it   *)
(* is read.                                                                *)
(***************************************************************************)
EXTENDS Naturals, FiniteSets

CONSTANTS
    Owners,         \* users
    Bindings,       \* connector bindings, each with an agent of its own
    BindingOwner,   \* the owner of the binding's device
    Arenas,         \* games that take participants
    Keys,           \* idempotency keys
    DisplayNames,   \* names of local agents
    WithWallet,     \* owners for whom the inventory still had a wallet
    Others,         \* users who join the current game another way (GameEntry)
    MaxParticipants

ASSUME ParticipationAssumption ==
    /\ BindingOwner \in [Bindings -> Owners]
    /\ WithWallet \subseteq Owners
    /\ Others \cap Owners = {}
    /\ MaxParticipants \in Nat

VARIABLES
    bound,          \* connector_bindings with its runtime and device
    posting,        \* bindings created by a request that has yet to register them
    route,          \* arena_agents and arena_runtime_bindings of the binding
    phase,          \* phase of the game
    seats,          \* game_agents and game_participants
    joining,        \* joining[o]: the join transaction of o in flight
    joined,         \* completed keys of game_participants.create
    registered      \* completed keys of local_agents.create

participationVars == <<bound, posting, route, phase, seats, joining, joined, registered>>

NoBinding == [status |-> "absent", directory |-> FALSE]
NoRoute == [via |-> "none", epoch |-> 0, status |-> "none", name |-> "none"]
NoJoin == [stage |-> "none"]
NoReply == [stage |-> "none"]

ParticipationInit ==
    /\ bound = [b \in Bindings |-> NoBinding]
    /\ posting = {}
    /\ route = [b \in Bindings |-> NoRoute]
    /\ phase = [g \in Arenas |-> "open"]
    /\ seats = {}
    /\ joining = [o \in Owners |-> NoJoin]
    /\ joined = [o \in Owners |-> [k \in Keys |-> NoReply]]
    /\ registered = [o \in Owners |-> [k \in Keys |-> NoReply]]

\* revoke_device counts the epoch up; nothing else does.
Epoch(b) == IF bound[b].status = "revoked" THEN 2 ELSE 1

\* join holds the agent and its route FOR SHARE until it commits.
Shared(b) == \E o \in Owners : joining[o].stage = "seat" /\ joining[o].agent = b
Locked(o) == joining[o].stage # "none"

-----------------------------------------------------------------------------
(* The Connector Gateway's side *)

\* The first request makes the binding, with or without a working directory;
\* a later one is given the same binding and may freeze a directory that was
\* still missing.
create_binding(b, directory) ==
    /\ bound[b].status # "revoked"
    /\ b \notin posting
    /\ bound' = [bound EXCEPT ![b] =
                   [status |-> "live", directory |-> @.directory \/ directory]]
    /\ posting' = posting \cup {b}
    /\ UNCHANGED <<route, phase, seats, joining, joined, registered>>

revoke_device(b) ==
    /\ bound[b].status = "live"
    /\ bound' = [bound EXCEPT ![b].status = "revoked"]
    /\ UNCHANGED <<posting, route, phase, seats, joining, joined, registered>>

-----------------------------------------------------------------------------
(* Routes *)

\* The second half of the request that created the binding; usable says
\* whether the runtime is reported available with the capabilities a task
\* needs and the binding is not stopped.  A route under the registrar's own id
\* is brought up to date; a local registration has taken the agent's only
\* active route, and the INSERT fails on its index.
register_connector_binding(b, usable) ==
    /\ b \in posting
    /\ ~Shared(b)
    /\ posting' = posting \ {b}
    /\ route' = IF route[b].via = "local"
                THEN route
                ELSE [route EXCEPT ![b] =
                        [via |-> "bridge",
                         epoch |-> Epoch(b),
                         status |-> IF bound[b].status = "live" /\ usable
                                    THEN "ready" ELSE "provisioning",
                         name |-> "binding"]]
    /\ UNCHANGED <<bound, phase, seats, joining, joined, registered>>

\* The request ends between its two halves.
RequestLost(b) ==
    /\ b \in posting
    /\ posting' = posting \ {b}
    /\ UNCHANGED <<bound, route, phase, seats, joining, joined, registered>>

\* The runtime is reported capable at this moment.
resolve_connector_binding_for_arena(o, b) ==
    /\ BindingOwner[b] = o
    /\ bound[b].status = "live"
    /\ bound[b].directory

\* The agent that this epoch of the binding has already; the key cannot be
\* completed while its route is not ready.
RegisteredAs(b, n) ==
    /\ route[b].epoch = Epoch(b)
    /\ route[b].name = n
    /\ route[b].status = "ready"
    /\ UNCHANGED route

\* The INSERT of the agent and its route; any other route of the binding's
\* agent stands in the way.
AddLocalRoute(b, n) ==
    /\ route[b] = NoRoute
    /\ route' = [route EXCEPT ![b] =
                   [via |-> "local", epoch |-> Epoch(b), status |-> "ready", name |-> n]]

register_local_agent(o, b, n, k) ==
    /\ ~Locked(o)
    /\ registered[o][k] = NoReply
    /\ resolve_connector_binding_for_arena(o, b)
    /\ RegisteredAs(b, n) \/ AddLocalRoute(b, n)
    /\ registered' = [registered EXCEPT ![o][k] =
                        [stage |-> "completed", binding |-> b, name |-> n, agent |-> b]]
    /\ UNCHANGED <<bound, posting, phase, seats, joining, joined>>

-----------------------------------------------------------------------------
(* Seats *)

\* The key is reserved by this transaction; another request under it was
\* refused or answered with what the key created.
ReservesKey(o, k) == ~Locked(o) /\ joined[o][k] = NoReply

\* The game is read without a lock, and again by the trigger of game_agents,
\* in a lock mode that does not stop its start.
GameOpen(g) == phase[g] = "open"

SeatOf(o, g) == {s \in seats : s.owner = o /\ s.game = g}

Complete(o, k, g, b, s) ==
    joined' = [joined EXCEPT ![o][k] =
                 [stage |-> "completed", game |-> g, agent |-> b, seat |-> s]]

\* Whether the seat that the owner has answers a request for agent b.
\* Mutant: any seat in the game does.
Answers_Any(s, b) == TRUE
Answers(s, b) == s.agent = b

\* The owner has a seat in the game already, and the key is new.
JoinAgain(o, g, b, k) ==
    /\ ReservesKey(o, k)
    /\ GameOpen(g)
    /\ \E s \in SeatOf(o, g) : Answers(s, b) /\ Complete(o, k, g, b, s)
    /\ UNCHANGED <<bound, posting, route, phase, seats, joining, registered>>

\* The agent is the owner's and its active route is ready, whatever has become
\* of its binding since.
RouteReady(o, b) == BindingOwner[b] = o /\ route[b].status = "ready"

\* join_game binds a platform wallet first, and the settlement needs one.
HasSettlementWallet(o) == o \in WithWallet

\* join up to the INSERT into game_agents.
join(o, g, b, k) ==
    /\ ReservesKey(o, k)
    /\ GameOpen(g)
    /\ SeatOf(o, g) = {}
    /\ RouteReady(o, b)
    /\ HasSettlementWallet(o)
    /\ joining' = [joining EXCEPT ![o] = [stage |-> "seat", game |-> g, agent |-> b, key |-> k]]
    /\ UNCHANGED <<bound, posting, route, phase, seats, joined, registered>>

\* The trigger of game_participants, which locks the game and counts its rows.
HasRoom(g) == Cardinality({s \in seats : s.game = g}) < MaxParticipants

\* The INSERT into game_participants, the balances, the event and the
\* completion of the key.
TakeSeat(o) ==
    LET j == joining[o]
        s == [owner |-> o, game |-> j.game, agent |-> j.agent]
    IN
    /\ j.stage = "seat"
    /\ IF HasRoom(j.game)
       THEN seats' = seats \cup {s} /\ Complete(o, j.key, j.game, j.agent, s)
       ELSE UNCHANGED <<seats, joined>>
    /\ joining' = [joining EXCEPT ![o] = NoJoin]
    /\ UNCHANGED <<bound, posting, route, phase, registered>>

\* The client goes away or the process dies: the transaction rolls back.
JoinRollsBack(o) ==
    /\ Locked(o)
    /\ joining' = [joining EXCEPT ![o] = NoJoin]
    /\ UNCHANGED <<bound, posting, route, phase, seats, joined, registered>>

\* A seat is taken through POST /api/games/current/participants (GameEntry).
JoinedElsewhere(u, g) ==
    /\ phase[g] = "open"
    /\ SeatOf(u, g) = {}
    /\ HasRoom(g)
    /\ seats' = seats \cup {[owner |-> u, game |-> g, agent |-> u]}
    /\ UNCHANGED <<bound, posting, route, phase, joining, joined, registered>>

\* The game is started by its operator or the lifecycle (GameEntry).
GameStarts(g) ==
    /\ phase[g] = "open"
    /\ phase' = [phase EXCEPT ![g] = "running"]
    /\ UNCHANGED <<bound, posting, route, seats, joining, joined, registered>>

\* An hour passes: the key's row no longer counts.
KeyExpires(o, k) ==
    /\ ~Locked(o)
    /\ \/ joined[o][k] # NoReply
       \/ registered[o][k] # NoReply
    /\ joined' = [joined EXCEPT ![o][k] = NoReply]
    /\ registered' = [registered EXCEPT ![o][k] = NoReply]
    /\ UNCHANGED <<bound, posting, route, phase, seats, joining>>

ParticipationNext ==
    \/ \E b \in Bindings :
          \/ \E d \in BOOLEAN : create_binding(b, d)
          \/ revoke_device(b)
          \/ \E usable \in BOOLEAN : register_connector_binding(b, usable)
          \/ RequestLost(b)
    \/ \E o \in Owners :
          \/ \E k \in Keys :
                \/ \E b \in Bindings, n \in DisplayNames : register_local_agent(o, b, n, k)
                \/ \E g \in Arenas, b \in Bindings : JoinAgain(o, g, b, k) \/ join(o, g, b, k)
                \/ KeyExpires(o, k)
          \/ TakeSeat(o)
          \/ JoinRollsBack(o)
    \/ \E g \in Arenas : GameStarts(g) \/ \E u \in Others : JoinedElsewhere(u, g)

ParticipationSpec == ParticipationInit /\ [][ParticipationNext]_participationVars

-----------------------------------------------------------------------------
(* Properties *)

\* Whatever is retried, expires, is lost or overlaps: a completed key answers
\* with a seat of its owner for the very game and agent of its request, and a
\* registration key with an agent that has a route; an owner has one seat in a
\* game, held by an agent of their own, and no game is overfull.
RepliesMatch ==
    /\ \A o \in Owners, k \in Keys :
          LET r == joined[o][k]
              l == registered[o][k]
          IN
          /\ r # NoReply => r.seat \in seats /\ r.seat = [owner |-> o, game |-> r.game, agent |-> r.agent]
          /\ l # NoReply => BindingOwner[l.binding] = o /\ route[l.binding].status # "none"
    /\ \A s, t \in seats : s.owner = t.owner /\ s.game = t.game => s = t
    /\ \A s \in seats : s.owner \in Owners => BindingOwner[s.agent] = s.owner
    /\ \A g \in Arenas : Cardinality({s \in seats : s.game = g}) <= MaxParticipants
=============================================================================
