------------------------ MODULE Participation_proofs ------------------------
(***************************************************************************)
(* For any number of owners, bindings, games and idempotency keys: what a  *)
(* completed key answers is true of the rows, owners sit once in a game    *)
(* with an agent of their own, and no game is overfull.                    *)
(*                                                                         *)
(* RepliesMatch needs, to be inductive, what a join transaction relies on  *)
(* while it is in flight: that its owner has no seat in the game yet, which *)
(* the owner's advisory lock keeps true, and that its agent is the owner's. *)
(***************************************************************************)
EXTENDS Participation, FiniteSetTheorems, TLAPS

Seat == [owner : Owners \cup Others, game : Arenas, agent : Bindings \cup Others]
Route ==
    [via : {"none", "bridge", "local"}, epoch : 0..2,
     status : {"none", "provisioning", "ready"}, name : {"none", "binding"} \cup DisplayNames]
Join == [stage : {"seat"}, game : Arenas, agent : Bindings, key : Keys]
JoinReply == [stage : {"completed"}, game : Arenas, agent : Bindings, seat : Seat]
RouteReply ==
    [stage : {"completed"}, binding : Bindings, name : DisplayNames, agent : Bindings]

ParticipationTypeOK ==
    /\ bound \in [Bindings -> [status : {"absent", "live", "revoked"}, directory : BOOLEAN]]
    /\ route \in [Bindings -> Route]
    /\ seats \in SUBSET Seat
    /\ IsFiniteSet(seats)
    /\ joining \in [Owners -> {NoJoin} \cup Join]
    /\ joined \in [Owners -> [Keys -> {NoReply} \cup JoinReply]]
    /\ registered \in [Owners -> [Keys -> {NoReply} \cup RouteReply]]

JoinInFlight ==
    \A o \in Owners :
        joining[o] # NoJoin => /\ BindingOwner[joining[o].agent] = o
                               /\ SeatOf(o, joining[o].game) = {}

SeatReplies ==
    \A o \in Owners, k \in Keys : joined[o][k] # NoReply =>
        /\ joined[o][k].seat \in seats
        /\ joined[o][k].seat = [owner |-> o, game |-> joined[o][k].game, agent |-> joined[o][k].agent]
RouteReplies ==
    \A o \in Owners, k \in Keys : registered[o][k] # NoReply =>
        /\ BindingOwner[registered[o][k].binding] = o
        /\ route[registered[o][k].binding].status # "none"
SeatedOnce == \A s, t \in seats : s.owner = t.owner /\ s.game = t.game => s = t
OwnAgents == \A s \in seats : s.owner \in Owners => BindingOwner[s.agent] = s.owner
In(g) == {s \in seats : s.game = g}
NotOverfull == \A g \in Arenas : Cardinality(In(g)) <= MaxParticipants

ParticipationInv ==
    /\ ParticipationTypeOK
    /\ JoinInFlight
    /\ SeatReplies
    /\ RouteReplies
    /\ SeatedOnce
    /\ OwnAgents
    /\ NotOverfull

-----------------------------------------------------------------------------

\* Before anything happens there are no seats, keys or routes.
LEMMA InitInv == ParticipationInit => ParticipationInv
<1> SUFFICES ASSUME ParticipationInit PROVE ParticipationInv
  BY Zenon
<1>1. ParticipationTypeOK
  <2>1. NoBinding \in [status : {"absent", "live", "revoked"}, directory : BOOLEAN]
    BY Zenon DEF NoBinding
  <2>2. NoRoute \in Route
    BY DEF NoRoute, Route
  <2>3. IsFiniteSet(seats) /\ seats \in SUBSET Seat
    BY FS_EmptySet, Zenon DEF ParticipationInit
  <2>4. /\ joined \in [Owners -> [Keys -> {NoReply} \cup JoinReply]]
        /\ registered \in [Owners -> [Keys -> {NoReply} \cup RouteReply]]
        /\ joining \in [Owners -> {NoJoin} \cup Join]
    BY Zenon DEF ParticipationInit
  <2> QED
    BY <2>1, <2>2, <2>3, <2>4, Zenon DEF ParticipationInit, ParticipationTypeOK
<1>2. JoinInFlight /\ SeatReplies /\ RouteReplies
  BY Zenon DEF ParticipationInit, JoinInFlight, SeatReplies, RouteReplies
<1>3. SeatedOnce /\ OwnAgents
  BY Zenon DEF ParticipationInit, SeatedOnce, OwnAgents
<1>4. NotOverfull
  <2>1. \A g \in Arenas : In(g) = {}
    BY Zenon DEF ParticipationInit, In
  <2> QED
    BY <2>1, FS_EmptySet, ParticipationAssumption DEF NotOverfull
<1> QED
  BY <1>1, <1>2, <1>3, <1>4, Zenon DEF ParticipationInv

\* A step that leaves the seats alone says nothing new about them.
LEMMA SeatsKept ==
    ASSUME ParticipationInv, UNCHANGED seats
    PROVE  SeatedOnce' /\ OwnAgents' /\ NotOverfull'
BY Zenon DEF ParticipationInv, SeatedOnce, OwnAgents, NotOverfull, In

\* Nor does one that leaves the join transactions and their keys alone.
LEMMA JoinsKept ==
    ASSUME ParticipationInv, UNCHANGED <<seats, joining, joined>>
    PROVE  JoinInFlight' /\ SeatReplies'
BY DEF ParticipationInv, JoinInFlight, SeatReplies, SeatOf

\* Steps on the gateway's rows and on the phase of a game.
LEMMA AsideInv ==
    ASSUME ParticipationInv,
           bound' \in [Bindings -> [status : {"absent", "live", "revoked"}, directory : BOOLEAN]],
           UNCHANGED <<route, seats, joining, joined, registered>>
    PROVE  ParticipationInv'
<1>1. ParticipationTypeOK'
  BY Zenon DEF ParticipationInv, ParticipationTypeOK
<1>2. RouteReplies'
  BY DEF ParticipationInv, RouteReplies
<1> QED
  BY <1>1, <1>2, SeatsKept, JoinsKept, Zenon DEF ParticipationInv

\* The bindings of the gateway.
LEMMA GatewayInv ==
    ASSUME ParticipationInv, NEW b \in Bindings,
           \/ \E d \in BOOLEAN : create_binding(b, d)
           \/ revoke_device(b)
           \/ RequestLost(b)
    PROVE  ParticipationInv'
<1>1. bound \in [Bindings -> [status : {"absent", "live", "revoked"}, directory : BOOLEAN]]
  BY Zenon DEF ParticipationInv, ParticipationTypeOK
<1>2. CASE \E d \in BOOLEAN : create_binding(b, d)
  BY <1>1, <1>2, AsideInv DEF create_binding
<1>3. CASE revoke_device(b)
  BY <1>1, <1>3, AsideInv, Zenon DEF revoke_device
<1>4. CASE RequestLost(b)
  BY <1>1, <1>4, AsideInv, Zenon DEF RequestLost
<1> QED
  BY <1>2, <1>3, <1>4, Zenon

\* A binding's epoch is 1, and 2 once its device is revoked.
LEMMA EpochRange == ASSUME NEW b PROVE Epoch(b) \in 0..2
BY DEF Epoch

\* The registrar leaves every route that a key answered with in place.
LEMMA RegistrarInv ==
    ASSUME ParticipationInv, NEW b \in Bindings, NEW usable \in BOOLEAN,
           register_connector_binding(b, usable)
    PROVE  ParticipationInv'
<1>1. route \in [Bindings -> Route]
  BY Zenon DEF ParticipationInv, ParticipationTypeOK
<1>2. PICK status \in {"provisioning", "ready"} :
        route' = IF route[b].via = "local" THEN route
                 ELSE [route EXCEPT ![b] = [via |-> "bridge", epoch |-> Epoch(b),
                                            status |-> status, name |-> "binding"]]
  BY Zenon DEF register_connector_binding
<1>3. route' \in [Bindings -> Route] /\ \A c \in Bindings : route[c].status # "none" => route'[c].status # "none"
  BY <1>1, <1>2, EpochRange, Zenon DEF Route
<1>4. ParticipationTypeOK'
  BY <1>3, Zenon DEF register_connector_binding, ParticipationInv, ParticipationTypeOK
<1>5. RouteReplies'
  <2>1. registered \in [Owners -> [Keys -> {NoReply} \cup RouteReply]]
    BY Zenon DEF ParticipationInv, ParticipationTypeOK
  <2> QED
    BY <1>3, <2>1 DEF register_connector_binding, ParticipationInv, RouteReplies, RouteReply, NoReply
<1>6. UNCHANGED <<seats, joining, joined>>
  BY Zenon DEF register_connector_binding
<1> QED
  BY <1>4, <1>5, <1>6, SeatsKept, JoinsKept, Zenon DEF ParticipationInv

\* A local registration completes its key with a route that is ready.
LEMMA RegisterLocalInv ==
    ASSUME ParticipationInv, NEW o \in Owners, NEW b \in Bindings, NEW n \in DisplayNames,
           NEW k \in Keys, register_local_agent(o, b, n, k)
    PROVE  ParticipationInv'
<1> DEFINE reply == [stage |-> "completed", binding |-> b, name |-> n, agent |-> b]
<1>1. /\ route \in [Bindings -> Route]
      /\ registered \in [Owners -> [Keys -> {NoReply} \cup RouteReply]]
  BY Zenon DEF ParticipationInv, ParticipationTypeOK
<1>2. reply \in RouteReply
  BY Zenon DEF RouteReply
<1>3. registered' = [registered EXCEPT ![o][k] = reply]
  BY Zenon DEF register_local_agent
<1>4. registered' \in [Owners -> [Keys -> {NoReply} \cup RouteReply]]
  BY <1>1, <1>2, <1>3, Zenon
<1>5. /\ route' \in [Bindings -> Route]
      /\ route'[b].status = "ready"
      /\ \A c \in Bindings : route[c].status # "none" => route'[c].status # "none"
  <2>1. CASE RegisteredAs(b, n)
    BY <2>1, <1>1, Zenon DEF RegisteredAs
  <2>2. CASE AddLocalRoute(b, n)
    <3>1. [via |-> "local", epoch |-> Epoch(b), status |-> "ready", name |-> n] \in Route
      BY EpochRange, Zenon DEF Route
    <3> QED
      BY <2>2, <3>1, <1>1, Zenon DEF AddLocalRoute
  <2> QED
    BY <2>1, <2>2, Zenon DEF register_local_agent
<1>6. UNCHANGED <<bound, seats, joining, joined>>
  BY Zenon DEF register_local_agent
<1>7. ParticipationTypeOK'
  BY <1>4, <1>5, <1>6, Zenon DEF ParticipationInv, ParticipationTypeOK
<1>8. RouteReplies'
  <2> SUFFICES ASSUME NEW p \in Owners, NEW j \in Keys, registered'[p][j] # NoReply
               PROVE  /\ BindingOwner[registered'[p][j].binding] = p
                      /\ route'[registered'[p][j].binding].status # "none"
    BY Zenon DEF RouteReplies
  <2>1. CASE p = o /\ j = k
    <3>1. registered'[p][j] = reply
      BY <2>1, <1>1, <1>3, Zenon
    <3>2. BindingOwner[b] = o
      BY Zenon DEF register_local_agent, resolve_connector_binding_for_arena
    <3> QED
      BY <2>1, <3>1, <3>2, <1>5
  <2>2. CASE ~ (p = o /\ j = k)
    <3>1. registered'[p][j] = registered[p][j]
      BY <2>2, <1>1, <1>3, Zenon
    <3>2. registered[p][j] \in RouteReply
      BY <3>1, <1>1, Zenon
    <3> QED
      BY <3>1, <3>2, <1>5 DEF ParticipationInv, RouteReplies, RouteReply
  <2> QED
    BY <2>1, <2>2, Zenon
<1> QED
  BY <1>6, <1>7, <1>8, SeatsKept, JoinsKept, Zenon DEF ParticipationInv

\* A seat added for an owner who had none, while there was room.
LEMMA AddSeat ==
    ASSUME ParticipationInv, NEW s \in Seat, seats' = seats \cup {s},
           SeatOf(s.owner, s.game) = {}, HasRoom(s.game),
           s.owner \in Owners => BindingOwner[s.agent] = s.owner
    PROVE  /\ seats' \in SUBSET Seat /\ IsFiniteSet(seats')
           /\ SeatedOnce' /\ OwnAgents' /\ NotOverfull'
<1>1. seats \in SUBSET Seat /\ IsFiniteSet(seats)
  BY Zenon DEF ParticipationInv, ParticipationTypeOK
<1>2. seats' \in SUBSET Seat /\ IsFiniteSet(seats')
  BY <1>1, FS_AddElement, Zenon
<1>3. SeatedOnce' /\ OwnAgents'
  BY DEF ParticipationInv, SeatedOnce, OwnAgents, SeatOf
<1>4. NotOverfull'
  <2> SUFFICES ASSUME NEW g \in Arenas PROVE Cardinality(In(g)') <= MaxParticipants
    BY Zenon DEF NotOverfull
  <2>1. IsFiniteSet(In(g)) /\ Cardinality(In(g)) \in Nat
    BY <1>1, FS_Subset, FS_CardinalityType, Zenon DEF In
  <2>2. CASE g = s.game
    <3>1. In(g)' = In(g) \cup {s}
      BY <2>2, Zenon DEF In
    <3>2. Cardinality(In(g)) < MaxParticipants
      BY <2>2, Zenon DEF HasRoom, In
    <3>3. Cardinality(In(g) \cup {s}) <= Cardinality(In(g)) + 1
      BY <2>1, FS_AddElement
    <3>4. Cardinality(In(g) \cup {s}) \in Nat
      BY <2>1, FS_AddElement
    <3> QED
      BY <2>1, <3>1, <3>2, <3>3, <3>4, ParticipationAssumption
  <2>3. CASE g # s.game
    <3>1. In(g)' = In(g)
      BY <2>3, Zenon DEF In
    <3> QED
      BY <3>1, Zenon DEF ParticipationInv, NotOverfull
  <2> QED
    BY <2>2, <2>3, Zenon
<1> QED
  BY <1>2, <1>3, <1>4, Zenon

\* A key is completed with a seat of its owner, for the request's agent.
LEMMA CompleteKey ==
    ASSUME ParticipationInv, NEW o \in Owners, NEW k \in Keys, NEW g \in Arenas, NEW b \in Bindings,
           NEW s \in Seat, s = [owner |-> o, game |-> g, agent |-> b],
           Complete(o, k, g, b, s), s \in seats', seats \subseteq seats'
    PROVE  joined' \in [Owners -> [Keys -> {NoReply} \cup JoinReply]] /\ SeatReplies'
<1> DEFINE reply == [stage |-> "completed", game |-> g, agent |-> b, seat |-> s]
<1>1. joined \in [Owners -> [Keys -> {NoReply} \cup JoinReply]]
  BY Zenon DEF ParticipationInv, ParticipationTypeOK
<1>2. reply \in JoinReply /\ joined' = [joined EXCEPT ![o][k] = reply]
  BY Zenon DEF JoinReply, Complete
<1>3. joined' \in [Owners -> [Keys -> {NoReply} \cup JoinReply]]
  BY <1>1, <1>2, Zenon
<1>4. SeatReplies'
  <2> SUFFICES ASSUME NEW p \in Owners, NEW j \in Keys, joined'[p][j] # NoReply
               PROVE  /\ joined'[p][j].seat \in seats'
                      /\ joined'[p][j].seat =
                           [owner |-> p, game |-> joined'[p][j].game, agent |-> joined'[p][j].agent]
    BY Zenon DEF SeatReplies
  <2>1. CASE p = o /\ j = k
    BY <2>1, <1>1, <1>2, Zenon
  <2>2. CASE ~ (p = o /\ j = k)
    <3>1. joined'[p][j] = joined[p][j]
      BY <2>2, <1>1, <1>2, Zenon
    <3> QED
      BY <3>1 DEF ParticipationInv, SeatReplies
  <2> QED
    BY <2>1, <2>2, Zenon
<1> QED
  BY <1>3, <1>4, Zenon

\* The owner has the seat already and asks again under a new key.
LEMMA JoinAgainInv ==
    ASSUME ParticipationInv, NEW o \in Owners, NEW g \in Arenas, NEW b \in Bindings, NEW k \in Keys,
           JoinAgain(o, g, b, k)
    PROVE  ParticipationInv'
<1>1. PICK s \in SeatOf(o, g) : s.agent = b /\ Complete(o, k, g, b, s)
  BY Zenon DEF JoinAgain, Answers
<1>2. s \in seats /\ s \in Seat /\ s.owner = o /\ s.game = g
  BY <1>1, Zenon DEF SeatOf, ParticipationInv, ParticipationTypeOK
<1>3. s = [owner |-> o, game |-> g, agent |-> b]
  BY <1>1, <1>2, Zenon DEF Seat
<1>4. UNCHANGED <<bound, route, seats, joining, registered>>
  BY Zenon DEF JoinAgain
<1>5. joined' \in [Owners -> [Keys -> {NoReply} \cup JoinReply]] /\ SeatReplies'
  BY <1>1, <1>2, <1>3, <1>4, CompleteKey, Zenon
<1>6. ParticipationTypeOK'
  BY <1>4, <1>5, Zenon DEF ParticipationInv, ParticipationTypeOK
<1>7. JoinInFlight' /\ RouteReplies'
  BY <1>4 DEF ParticipationInv, JoinInFlight, RouteReplies, SeatOf
<1> QED
  BY <1>4, <1>5, <1>6, <1>7, SeatsKept, Zenon DEF ParticipationInv

\* A join transaction begins, or rolls back.
LEMMA JoiningInv ==
    ASSUME ParticipationInv, NEW o \in Owners,
           NEW j \in {NoJoin} \cup Join, joining' = [joining EXCEPT ![o] = j],
           j # NoJoin => BindingOwner[j.agent] = o /\ SeatOf(o, j.game) = {},
           UNCHANGED <<bound, route, seats, joined, registered>>
    PROVE  ParticipationInv'
<1>1. joining \in [Owners -> {NoJoin} \cup Join]
  BY Zenon DEF ParticipationInv, ParticipationTypeOK
<1>2. ParticipationTypeOK'
  BY <1>1, Zenon DEF ParticipationInv, ParticipationTypeOK
<1>3. JoinInFlight'
  BY <1>1 DEF ParticipationInv, JoinInFlight, SeatOf
<1>4. SeatReplies' /\ RouteReplies'
  BY DEF ParticipationInv, SeatReplies, RouteReplies
<1> QED
  BY <1>2, <1>3, <1>4, SeatsKept, Zenon DEF ParticipationInv

\* join reads what it needs of the owner's rows under the owner's lock.
LEMMA JoinInv ==
    ASSUME ParticipationInv, NEW o \in Owners, NEW g \in Arenas, NEW b \in Bindings, NEW k \in Keys,
           join(o, g, b, k)
    PROVE  ParticipationInv'
<1> DEFINE j == [stage |-> "seat", game |-> g, agent |-> b, key |-> k]
<1>1. j \in Join /\ joining' = [joining EXCEPT ![o] = j]
  BY Zenon DEF Join, join
<1>2. BindingOwner[j.agent] = o /\ SeatOf(o, j.game) = {}
  BY Zenon DEF join, RouteReady
<1>3. UNCHANGED <<bound, route, seats, joined, registered>>
  BY Zenon DEF join
<1> HIDE DEF j
<1> QED
  BY <1>1, <1>2, <1>3, JoiningInv, Zenon

\* A transaction that rolls back leaves nothing.
LEMMA RollBackInv ==
    ASSUME ParticipationInv, NEW o \in Owners, JoinRollsBack(o)
    PROVE  ParticipationInv'
BY JoiningInv, Zenon DEF JoinRollsBack

\* The insert of the seat and the completion of the key are one commit.
LEMMA TakeSeatInv ==
    ASSUME ParticipationInv, NEW o \in Owners, TakeSeat(o)
    PROVE  ParticipationInv'
<1> DEFINE j == joining[o]
           s == [owner |-> o, game |-> j.game, agent |-> j.agent]
<1>1. joining \in [Owners -> {NoJoin} \cup Join]
  BY Zenon DEF ParticipationInv, ParticipationTypeOK
<1>2. j \in Join /\ j # NoJoin
  BY <1>1 DEF TakeSeat, NoJoin, Join
<1>3. UNCHANGED <<bound, route, registered>> /\ joining' = [joining EXCEPT ![o] = NoJoin]
  BY Zenon DEF TakeSeat
<1>4. CASE ~ HasRoom(j.game)
  BY <1>3, <1>4, JoiningInv, Zenon DEF TakeSeat
<1>5. CASE HasRoom(j.game)
  <2>1. seats' = seats \cup {s} /\ Complete(o, j.key, j.game, j.agent, s)
    BY <1>5, Zenon DEF TakeSeat
  <2>2. BindingOwner[j.agent] = o /\ SeatOf(o, j.game) = {}
    BY <1>2, Zenon DEF ParticipationInv, JoinInFlight
  <2>3. j.game \in Arenas /\ j.agent \in Bindings /\ j.key \in Keys
    BY <1>2, Zenon DEF Join
  <2>4. s \in Seat
    BY <2>3, Zenon DEF Seat
  <2>5. s.owner = o /\ s.game = j.game /\ s.agent = j.agent
    BY Zenon
  <2>6. /\ seats' \in SUBSET Seat /\ IsFiniteSet(seats')
        /\ SeatedOnce' /\ OwnAgents' /\ NotOverfull'
    <3> HIDE DEF s
    <3> QED
      BY <1>5, <2>1, <2>2, <2>4, <2>5, AddSeat, Zenon
  <2>7. joined' \in [Owners -> [Keys -> {NoReply} \cup JoinReply]] /\ SeatReplies'
    <3>1. s \in seats' /\ seats \subseteq seats'
      BY <2>1, Zenon
    <3> HIDE DEF j
    <3> QED
      BY <2>1, <2>3, <2>4, <3>1, CompleteKey, Zenon
  <2>8. ParticipationTypeOK'
    <3>1. joining' \in [Owners -> {NoJoin} \cup Join]
      BY <1>1, <1>3, Zenon
    <3> QED
      BY <1>3, <2>6, <2>7, <3>1, Zenon DEF ParticipationInv, ParticipationTypeOK
  <2>9. JoinInFlight'
    <3> SUFFICES ASSUME NEW p \in Owners, joining'[p] # NoJoin
                 PROVE  BindingOwner[joining'[p].agent] = p /\ SeatOf(p, joining[p].game)' = {}
      BY Zenon DEF JoinInFlight, SeatOf
    <3>1. p # o /\ joining'[p] = joining[p]
      BY <1>1, <1>3, Zenon
    <3>2. BindingOwner[joining[p].agent] = p /\ SeatOf(p, joining[p].game) = {}
      BY <3>1, Zenon DEF ParticipationInv, JoinInFlight
    <3> QED
      BY <3>1, <3>2, <2>1, <2>5, Zenon DEF SeatOf
  <2>10. RouteReplies'
    BY <1>3 DEF ParticipationInv, RouteReplies
  <2> QED
    BY <2>6, <2>7, <2>8, <2>9, <2>10, Zenon DEF ParticipationInv
<1> QED
  BY <1>4, <1>5, Zenon

\* A seat taken the other way is another user's.
LEMMA JoinedElsewhereInv ==
    ASSUME ParticipationInv, NEW u \in Others, NEW g \in Arenas, JoinedElsewhere(u, g)
    PROVE  ParticipationInv'
<1> DEFINE s == [owner |-> u, game |-> g, agent |-> u]
<1>1. u \notin Owners
  BY ParticipationAssumption, Zenon
<1>2. s \in Seat /\ s.owner = u /\ s.game = g
  BY Zenon DEF Seat
<1>3. /\ seats' = seats \cup {s} /\ SeatOf(u, g) = {} /\ HasRoom(g)
      /\ UNCHANGED <<bound, route, joining, joined, registered>>
  BY Zenon DEF JoinedElsewhere
<1> HIDE DEF s
<1>4. /\ seats' \in SUBSET Seat /\ IsFiniteSet(seats')
      /\ SeatedOnce' /\ OwnAgents' /\ NotOverfull'
  BY <1>1, <1>2, <1>3, AddSeat, Zenon
<1>5. ParticipationTypeOK'
  BY <1>3, <1>4, Zenon DEF ParticipationInv, ParticipationTypeOK
<1>6. JoinInFlight'
  BY <1>1, <1>2, <1>3 DEF ParticipationInv, JoinInFlight, SeatOf
<1>7. SeatReplies' /\ RouteReplies'
  BY <1>3 DEF ParticipationInv, SeatReplies, RouteReplies
<1> QED
  BY <1>4, <1>5, <1>6, <1>7, Zenon DEF ParticipationInv

\* A key that expired answers nothing.
LEMMA KeyExpiresInv ==
    ASSUME ParticipationInv, NEW o \in Owners, NEW k \in Keys, KeyExpires(o, k)
    PROVE  ParticipationInv'
<1>1. /\ joined \in [Owners -> [Keys -> {NoReply} \cup JoinReply]]
      /\ registered \in [Owners -> [Keys -> {NoReply} \cup RouteReply]]
  BY Zenon DEF ParticipationInv, ParticipationTypeOK
<1>2. /\ joined' = [joined EXCEPT ![o][k] = NoReply]
      /\ registered' = [registered EXCEPT ![o][k] = NoReply]
      /\ UNCHANGED <<bound, route, seats, joining>>
  BY Zenon DEF KeyExpires
<1>3. \A p \in Owners, j \in Keys :
        /\ joined'[p][j] \in {joined[p][j], NoReply}
        /\ registered'[p][j] \in {registered[p][j], NoReply}
  BY <1>1, <1>2, Zenon
<1>4. ParticipationTypeOK'
  BY <1>1, <1>2, Zenon DEF ParticipationInv, ParticipationTypeOK
<1>5. SeatReplies'
  BY <1>2, <1>3 DEF ParticipationInv, SeatReplies
<1>6. RouteReplies'
  BY <1>2, <1>3 DEF ParticipationInv, RouteReplies
<1>7. JoinInFlight'
  BY <1>2 DEF ParticipationInv, JoinInFlight, SeatOf
<1> QED
  BY <1>2, <1>4, <1>5, <1>6, <1>7, SeatsKept, Zenon DEF ParticipationInv

-----------------------------------------------------------------------------
(* The theorem *)

\* Every step keeps the invariant: one case per action.
LEMMA NextInv == ParticipationInv /\ [ParticipationNext]_participationVars => ParticipationInv'
<1> SUFFICES ASSUME ParticipationInv, [ParticipationNext]_participationVars PROVE ParticipationInv'
  BY Zenon
<1>0. bound \in [Bindings -> [status : {"absent", "live", "revoked"}, directory : BOOLEAN]]
  BY Zenon DEF ParticipationInv, ParticipationTypeOK
<1>1. CASE UNCHANGED participationVars
  BY <1>0, <1>1, AsideInv, Zenon DEF participationVars
<1>2. ASSUME NEW b \in Bindings,
             \/ \E d \in BOOLEAN : create_binding(b, d)
             \/ revoke_device(b)
             \/ \E usable \in BOOLEAN : register_connector_binding(b, usable)
             \/ RequestLost(b)
      PROVE  ParticipationInv'
  BY <1>2, GatewayInv, RegistrarInv, Zenon
<1>3. ASSUME NEW o \in Owners, NEW k \in Keys,
             \/ \E b \in Bindings, n \in DisplayNames : register_local_agent(o, b, n, k)
             \/ \E g \in Arenas, b \in Bindings : JoinAgain(o, g, b, k) \/ join(o, g, b, k)
             \/ KeyExpires(o, k)
      PROVE  ParticipationInv'
  BY <1>3, RegisterLocalInv, JoinAgainInv, JoinInv, KeyExpiresInv, Zenon
<1>4. ASSUME NEW o \in Owners, TakeSeat(o) \/ JoinRollsBack(o)
      PROVE  ParticipationInv'
  BY <1>4, TakeSeatInv, RollBackInv, Zenon
<1>5. ASSUME NEW g \in Arenas, GameStarts(g) \/ \E u \in Others : JoinedElsewhere(u, g)
      PROVE  ParticipationInv'
  <2>1. CASE GameStarts(g)
    BY <1>0, <2>1, AsideInv, Zenon DEF GameStarts
  <2>2. CASE \E u \in Others : JoinedElsewhere(u, g)
    BY <2>2, JoinedElsewhereInv, Zenon
  <2> QED
    BY <1>5, <2>1, <2>2, Zenon
<1> QED
  BY <1>1, <1>2, <1>3, <1>4, <1>5, Zenon DEF ParticipationNext

\* Retries, lost requests, expired keys and overlapping joins of
\* PostgresArenaParticipationRepository never answer a key with a seat or an
\* agent other than its owner's, seat an owner twice, or overfill a game.
THEOREM RepliesAlwaysMatch == ParticipationSpec => []RepliesMatch
<1>1. ParticipationSpec => []ParticipationInv
  BY InitInv, NextInv, PTL DEF ParticipationSpec
<1>2. ParticipationInv => RepliesMatch
  BY DEF ParticipationInv, RepliesMatch, SeatReplies, RouteReplies, SeatedOnce, OwnAgents,
         NotOverfull, In
<1> QED
  BY <1>1, <1>2, PTL

=============================================================================
