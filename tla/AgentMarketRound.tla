--------------------------- MODULE AgentMarketRound ---------------------------
(***************************************************************************)
(* One round of the market: the coordinator that claims the runtime run of *)
(* the round, and the market rows it and the projection worker write.  A   *)
(* game is created with one of two protocols.  In the Agent-driven one     *)
(* (agent_a2a.v1) the round goes through intents, RFQs, seller selections  *)
(* and negotiations; in the older one (fcfs.v1) the decisions form a pool  *)
(* that is paired in the order in which the results came.                  *)
(*                                                                         *)
(* A coordinator is a process that may stall or die between any two of its *)
(* transactions; one transaction is one step.  An Agent is its answers: a  *)
(* task is answered once, with an action the candidate rules allow or with *)
(* the default of its kind.  One good is traded; a request is <<buyer,     *)
(* attempt>> and names its engagement and its negotiation; a pairing of    *)
(* fcfs.v1 is the <<buyer, 1>> of its buyer.  Time is two                  *)
(* facts: how far the deadline of the phase is (clock) and whether the     *)
(* intents have expired (over); a deadline counted from an earlier moment  *)
(* may have passed or not.                                                 *)
(***************************************************************************)
EXTENDS Integers, FiniteSets

CONSTANTS
    Participants,   \* game_participant_id
    Wants,          \* the intents [side, limit] each participant may publish
    Bids,           \* the same of the decisions of fcfs.v1, whose limit may be NoLimit
    Prices,         \* price_atomic
    Nobody,         \* no participant
    Coordinators,   \* worker_id
    MaxAttempts,    \* market_rfq_sessions.max_attempts
    MaxTurns,       \* games.max_negotiation_turns
    Authorized,     \* whether settlement.authorization_mode is not "none"
    MaxClaims       \* bound on runtime_runs.lease_epoch

NoLimit == 0    \* limit_price_atomic IS NULL

ASSUME MarketAssumption ==
    /\ Prices \subseteq Nat \ {NoLimit}
    /\ Wants \in [Participants -> SUBSET [side : {"buy", "sell"}, limit : Prices]]
    /\ Bids \in [Participants -> SUBSET [side : {"buy", "sell"}, limit : Prices \cup {NoLimit}]]
    /\ Nobody \notin Participants \cup Coordinators
    /\ MaxAttempts \in Nat \ {0} /\ MaxTurns \in 2 .. 6 /\ MaxClaims \in Nat
    /\ Authorized \in BOOLEAN

VARIABLES
    run,        \* runtime_runs with games.market_protocol
    phase,      \* rounds.phase
    clock,      \* how far rounds.phase_deadline_at is
    over,       \* market_intents.expires_at has passed
    intent,     \* market_intents or pool_entries, by participant
    slot,       \* participant_round_slots, by participant
    session,    \* market_rfq_sessions, by buyer
    request,    \* market_negotiation_requests with their engagement and negotiation,
                \* or pairings with their negotiation
    task,       \* arena_agent_tasks of the round with their applied result
    coord       \* what each coordinator is about to do

marketVars == <<intent, slot, session, request>>
timeVars == <<clock, over>>
vars == <<run, phase, timeVars, marketVars, task, coord>>

Ids == Participants \X (1 .. MaxAttempts)

NoIntent == [status |-> "none", side |-> "none", limit |-> 0, at |-> 0]
NoSession == [status |-> "none", attempts |-> 0, directory |-> {}]
NoRequest == [status |-> "none", seller |-> Nobody, price |-> 0,
              engagement |-> "none", turns |-> 0]

NoId == <<Nobody, 0>>
FreeSlot == [status |-> "available", by |-> NoId]

\* An action of an Agent, or the default of the task kind.
Act(name, to, price) == [name |-> name, to |-> to, price |-> price]
NoAct == Act("none", Nobody, 0)

\* The idempotency key of a task, and the task as a coordinator asks for it.
Key(kind, of, n, about) == [kind |-> kind, of |-> of, n |-> n, about |-> about]
Ask(key, input, deadline) == [key |-> key, input |-> input, deadline |-> deadline]
NoKey == Key("none", Nobody, 0, {})

Idle == [pc |-> "idle", epoch |-> 0, todo |-> {}, wait |-> {}, hold |-> NoKey, then |-> "none"]

Init ==
    /\ \E protocol \in {"agent_a2a.v1", "fcfs.v1"} :
            run = [status |-> "queued", owner |-> Nobody, epoch |-> 0, live |-> FALSE,
                   protocol |-> protocol]
    /\ phase = "decide"
    /\ clock = "early" /\ over = FALSE
    /\ intent = [p \in Participants |-> NoIntent]
    /\ slot = [p \in Participants |-> FreeSlot]
    /\ session = [p \in Participants |-> NoSession]
    /\ request = [r \in Ids |-> NoRequest]
    /\ task = [k \in {} |-> NoAct]
    /\ coord = [c \in Coordinators |-> Idle]

-----------------------------------------------------------------------------
(* Reading the market *)

Fcfs == run.protocol = "fcfs.v1"
Open(p, side) == intent[p].status = "open" /\ intent[p].side = side /\ ~over
Tried(b) == {request[<<b, k>>].seller : k \in 1 .. session[b].attempts}
RequestsOf(b) == {r \in Ids : r[1] = b /\ request[r].status # "none"}
Unresolved(b) == \E r \in RequestsOf(b) : request[r].status \in {"pending", "engaged"}
Pending(s) == {r \in Ids : request[r].status = "pending" /\ request[r].seller = s}
\* The negotiation of r exists and goes on.
Active(r) == request[r].engagement = "active" /\ (Fcfs \/ request[r].turns > 0)

\* The sellers a buyer may deal with: of its good, other than itself, within
\* its limit.
Directory(b) == {s \in Participants : Open(s, "sell") /\ s # b
                                          /\ intent[s].limit <= intent[b].limit}

\* now() + action_timeout, or the stored deadline when that is nearer.
Relative == IF clock = "early" THEN "own" ELSE phase

-----------------------------------------------------------------------------
(* Projecting a result: project_agent_market_application *)

\* The result of t has its receipt; what it said is not read again.
Receipt(t) == task' = [task EXCEPT ![t].projected = TRUE, ![t].answer = NoAct]

\* The phases in which an action of each kind is still taken.
allowed_round_phases ==
    [intent |-> {"decide"}, rfq |-> {"match", "negotiate"}, select |-> {"negotiate"}]
market_stage_closed(t) == phase \notin allowed_round_phases[t.kind]

_project_market_intent_locked(t) ==
    /\ intent' = IF task[t].answer.name = "pass" THEN intent
                 ELSE [intent EXCEPT ![t.of] = [status |-> "open", side |-> task[t].answer.name,
                                                limit |-> task[t].answer.price, at |-> 0]]
    /\ UNCHANGED <<slot, session, request>>

\* The session of the buyer ends, if it is active.
EndSession(b, status) ==
    session' = IF session[b].status = "active" THEN [session EXCEPT ![b].status = status] ELSE session

\* What the repository checks of an RFQ before it writes it; the Agent answered
\* a view that may be old.
RfqHolds(t) ==
    LET to == task[t].answer.to IN
    /\ intent[t.of].status = "open"
    /\ session[t.of].status = "active" /\ session[t.of].attempts < MaxAttempts
    /\ t.n = session[t.of].attempts + 1
    /\ ~Unresolved(t.of)
    /\ to \in session[t.of].directory
    /\ intent[to].status = "open"
_project_market_rfq_locked(t) ==
    LET answer == task[t].answer IN
    \/ /\ answer.name = "pass" /\ EndSession(t.of, "stopped")
       /\ UNCHANGED <<intent, slot, request>>
    \/ /\ answer.name = "request" /\ RfqHolds(t)
       /\ request' = [request EXCEPT ![<<t.of, t.n>>] =
                        [NoRequest EXCEPT !.status = "pending", !.seller = answer.to,
                                          !.price = answer.price]]
       /\ session' = [session EXCEPT ![t.of].attempts = t.n]
       /\ UNCHANGED <<intent, slot>>

\* The requests of the task that are still pending get this status.
AnswerAll(t, status) ==
    request' = [r \in Ids |-> IF r \in t.about /\ request[r].status = "pending"
                                 THEN [request[r] EXCEPT !.status = status] ELSE request[r]]

\* The request the seller chose.
Chosen(t) == CHOOSE r \in t.about : r[1] = task[t].answer.to

EngageHolds(t) ==
    LET r == Chosen(t) IN
    /\ Open(r[1], "buy") /\ Open(t.of, "sell")
    /\ request[r].status = "pending"
    /\ intent[t.of].limit <= intent[r[1]].limit
Busy(p) == slot[p].status \in {"reserved", "consumed"}
Engage(r) ==
    LET both == {r[1], request[r].seller} IN
    /\ request' = [request EXCEPT ![r].status = "engaged", ![r].engagement = "active"]
    /\ slot' = [p \in Participants |-> IF p \in both THEN [status |-> "reserved", by |-> r] ELSE slot[p]]
    /\ intent' = [p \in Participants |-> IF p \in both THEN [intent[p] EXCEPT !.status = "reserved"]
                                           ELSE intent[p]]
    /\ UNCHANGED session
_project_market_selection_locked(t) ==
    LET answer == task[t].answer
        r == Chosen(t)
    IN  \/ /\ answer.name = "reject" /\ AnswerAll(t, "rejected")
           /\ UNCHANGED <<intent, slot, session>>
        \/ /\ answer.name = "engage" /\ EngageHolds(t)
           /\ IF Busy(r[1]) \/ Busy(t.of)
               THEN /\ request' = [request EXCEPT ![r].status = "counterparty_busy"]
                    /\ UNCHANGED <<intent, slot, session>>
               ELSE Engage(r)

\* A default publishes nothing: it ends the session of a buyer, or lets the
\* requests to a seller expire, in whatever phase the round is.
ProjectDefault(t) ==
    \/ t.kind = "intent" /\ UNCHANGED marketVars
    \/ t.kind = "rfq" /\ EndSession(t.of, "expired") /\ UNCHANGED <<intent, slot, request>>
    \/ t.kind = "select" /\ AnswerAll(t, "expired") /\ UNCHANGED <<intent, slot, session>>
ProjectCandidate(t) ==
    \/ t.kind = "intent" /\ _project_market_intent_locked(t)
    \/ t.kind = "rfq" /\ _project_market_rfq_locked(t)
    \/ t.kind = "select" /\ _project_market_selection_locked(t)

\* One transaction, serialised per result.  It has no successor where the
\* code raises: then nothing is written and no receipt is left.
project_agent_market_application(t) ==
    IF task[t].projected THEN UNCHANGED <<marketVars, task>>
    ELSE /\ Receipt(t)
         /\ IF task[t].answer.name = "default" THEN ProjectDefault(t)
            ELSE IF market_stage_closed(t) THEN UNCHANGED marketVars
            ELSE ProjectCandidate(t)
ProjectionRaises(t) ==
    /\ ~task[t].projected /\ ~market_stage_closed(t)
    /\ \/ task[t].answer.name = "request" /\ ~RfqHolds(t)
       \/ task[t].answer.name = "engage" /\ ~EngageHolds(t)

-----------------------------------------------------------------------------
(* The pool of fcfs.v1: apply_hosted_decision and pair_hosted_round *)

\* Mutant: the pool is ordered by when the decisions are applied.
apply_hosted_decision_AtApply(t) ==
    /\ Receipt(t)
    /\ intent' = IF task[t].projected \/ task[t].answer.name \in {"pass", "default"} THEN intent
                 ELSE [intent EXCEPT ![t.of] =
                        [status |-> "unmatched", side |-> task[t].answer.name,
                         limit |-> task[t].answer.price,
                         at |-> Cardinality({p \in Participants : intent[p] # NoIntent})]]
\* A decision to trade enters the pool, with the time its result was received.
apply_hosted_decision(t) ==
    /\ Receipt(t)
    /\ intent' = IF task[t].projected \/ task[t].answer.name \in {"pass", "default"} THEN intent
                 ELSE [intent EXCEPT ![t.of] =
                        [status |-> "unmatched", side |-> task[t].answer.name,
                         limit |-> task[t].answer.price, at |-> task[t].at]]

_limits_overlap(b, s) ==
    NoLimit \in {intent[b].limit, intent[s].limit} \/ intent[b].limit >= intent[s].limit

PoolEntries(side) == {p \in Participants : intent[p].status = "unmatched" /\ intent[p].side = side}
Earliest(ps) == CHOOSE p \in ps : \A q \in ps : intent[p].at <= intent[q].at

\* Buyers in the order they came; each takes the first seller left whose limit
\* fits its own.
fcfs_pair ==
    LET Pair[buyers \in SUBSET PoolEntries("buy"), sellers \in SUBSET PoolEntries("sell")] ==
            IF buyers = {} THEN {}
            ELSE LET b == Earliest(buyers)
                     fits == {s \in sellers : _limits_overlap(b, s)}
                 IN  IF fits = {} THEN Pair[buyers \ {b}, sellers]
                     ELSE {<<b, Earliest(fits)>>}
                            \cup Pair[buyers \ {b}, sellers \ {Earliest(fits)}]
    IN  Pair[PoolEntries("buy"), PoolEntries("sell")]

\* A pairing and its negotiation, which the buyer has still to open.
Pairing(s) == [NoRequest EXCEPT !.status = "engaged", !.seller = s, !.engagement = "active"]
_pair_locked_round ==
    LET pairs == fcfs_pair IN
    /\ intent' = [p \in Participants |-> IF \E x \in pairs : p \in {x[1], x[2]}
                        THEN [intent[p] EXCEPT !.status = "paired"] ELSE intent[p]]
    /\ request' = [r \in Ids |-> IF r[2] = 1 /\ \E x \in pairs : x[1] = r[1]
                        THEN Pairing((CHOOSE x \in pairs : x[1] = r[1])[2]) ELSE request[r]]

-----------------------------------------------------------------------------
(* Negotiating *)

RoleOf(turns) == IF turns % 2 = 0 THEN "buyer" ELSE "seller"
Speaker(r) == IF RoleOf(request[r].turns) = "buyer" THEN r[1] ELSE request[r].seller

\* Mutant: only the seller's limit is looked at.
outside_limit_SellerOnly(r, price) ==
    RoleOf(request[r].turns) = "seller" /\ price < intent[request[r].seller].limit
LimitOf(r) == intent[Speaker(r)].limit
\* A quote outside the limit of the participant who would be bound by it is
\* turned into a rejection.
outside_limit(r, price) ==
    /\ LimitOf(r) # NoLimit
    /\ IF RoleOf(request[r].turns) = "buyer" THEN price > LimitOf(r) ELSE price < LimitOf(r)
ActionTaken(r, answer) ==
    LET quote == IF answer.name = "accept" THEN request[r].price ELSE answer.price
    IN  IF answer.name \in {"propose", "accept"} /\ outside_limit(r, quote) THEN "reject"
        ELSE answer.name

\* Mutant: the slots stay reserved.
CloseWithout_KeepsSlots(r, engagement, status) ==
    /\ request' = [request EXCEPT ![r].engagement = engagement, ![r].status = status]
    /\ intent' = [p \in Participants |->
                    IF p \in {r[1], request[r].seller} /\ intent[p].status = "reserved" /\ ~over
                        THEN [intent[p] EXCEPT !.status = "open"] ELSE intent[p]]
    /\ UNCHANGED <<slot, session, phase, clock>>
\* The engagement ends without a deal and both sides may look again.
CloseWithout(r, engagement, status) ==
    /\ request' = [request EXCEPT ![r].engagement = engagement, ![r].status = status]
    /\ slot' = [p \in Participants |-> IF slot[p] = [status |-> "reserved", by |-> r] THEN FreeSlot
                                         ELSE slot[p]]
    /\ intent' = [p \in Participants |->
                    IF p \in {r[1], request[r].seller} /\ intent[p].status = "reserved" /\ ~over
                        THEN [intent[p] EXCEPT !.status = "open"] ELSE intent[p]]
    /\ UNCHANGED <<session, phase, clock>>

\* The settlement intent is frozen and the round settles; without settlement
\* the deal has failed.
_freeze_settlement_intent(r) ==
    /\ request' = [request EXCEPT ![r].engagement =
                        IF Authorized THEN "settling" ELSE "settlement_failed"]
    /\ phase' = IF Authorized /\ phase = "negotiate" THEN "settle" ELSE phase

ConsumeSlots(r) ==
    slot' = [p \in Participants |-> IF slot[p] = [status |-> "reserved", by |-> r]
                                      THEN [slot[p] EXCEPT !.status = "consumed"] ELSE slot[p]]

\* The deal is made and its buyer looks no further.
CloseWithDeal(r) ==
    /\ ConsumeSlots(r)
    /\ EndSession(r[1], "completed")
    /\ _freeze_settlement_intent(r)
    /\ UNCHANGED <<intent, clock>>

\* The offer stands and it is the other side's turn.
NextTurn(r, price) ==
    /\ request' = [request EXCEPT ![r].turns = @ + 1, ![r].price = price]
    /\ UNCHANGED <<intent, slot, session, phase, clock>>

NegotiationEnds(r, taken) ==
    \/ taken = "default" /\ CloseWithout(r, "timed_out", "expired")
    \/ taken = "reject" /\ CloseWithout(r, "rejected", "rejected")
    \/ taken = "accept" /\ CloseWithDeal(r)

apply_hosted_negotiation_action(t) ==
    LET r == CHOOSE x \in t.about : TRUE
        answer == task[t].answer
        taken == ActionTaken(r, answer)
    IN  /\ Receipt(t)
        /\ IF task[t].projected \/ ~Active(r)
            THEN UNCHANGED <<marketVars, phase, clock>>
            ELSE IF taken = "propose" THEN NextTurn(r, answer.price) ELSE NegotiationEnds(r, taken)

-----------------------------------------------------------------------------
(* The run and its lease *)

\* The run is still the one this coordinator claimed.
Owns(c) == run.owner = c /\ run.epoch = coord[c].epoch /\ run.status \in {"leased", "running"}

To(c, pc) == coord' = [coord EXCEPT ![c].pc = pc]
\* The stage raises: run_once reports the run as failed.
Raise(c) == coord' = [coord EXCEPT ![c] = [Idle EXCEPT !.pc = "fail", !.epoch = coord[c].epoch]]

claim_hosted_run(c) ==
    /\ coord[c].pc = "idle"
    /\ \/ run.status = "queued"
       \/ run.status \in {"leased", "running"} /\ ~run.live
    /\ run.epoch < MaxClaims
    /\ run' = [run EXCEPT !.status = "leased", !.owner = c, !.epoch = @ + 1, !.live = TRUE]
    /\ coord' = [coord EXCEPT ![c] = [Idle EXCEPT !.pc = "enter", !.epoch = run.epoch + 1]]
    /\ UNCHANGED <<phase, timeVars, marketVars, task>>

LeaseExpires ==
    /\ run.live
    /\ run' = [run EXCEPT !.live = FALSE]
    /\ UNCHANGED <<phase, timeVars, marketVars, task, coord>>

\* _renew_run_lease: a heartbeat that finds the lease gone cancels the stage.
HeartbeatFails(c) ==
    /\ coord[c].pc \notin {"idle", "complete", "fail"}
    /\ ~(Owns(c) /\ run.live)
    /\ Raise(c)
    /\ UNCHANGED <<run, phase, timeVars, marketVars, task>>

\* The end of the run needs the epoch of the claim, not a lease that runs.
complete_hosted_run(c) ==
    /\ coord[c].pc \in {"complete", "fail"}
    /\ run' = IF ~Owns(c) THEN run
              ELSE [run EXCEPT !.status = IF coord[c].pc = "fail" THEN "failed" ELSE "completed",
                               !.live = FALSE]
    /\ coord' = [coord EXCEPT ![c] = Idle]
    /\ UNCHANGED <<phase, timeVars, marketVars, task>>

Crash(c) ==
    /\ coord[c].pc # "idle"
    /\ coord' = [coord EXCEPT ![c] = Idle]
    /\ UNCHANGED <<run, phase, timeVars, marketVars, task>>

-----------------------------------------------------------------------------
(* The stages of a coordinator: _process_agent_market and _process *)

\* The phases of a round whose market is open.
Trading == {"decide", "match", "negotiate"}

\* The run is marked as running in this stage, if it can be entered.
mark_hosted_run_running(c, at, stage, entered) ==
    /\ coord[c].pc = at
    /\ IF entered /\ Owns(c)
        THEN /\ run' = [run EXCEPT !.status = "running", !.live = TRUE]
             /\ To(c, stage)
        ELSE Raise(c) /\ UNCHANGED run
    /\ UNCHANGED <<phase, timeVars, marketVars, task>>

\* These tasks are to be created and their results to be collected.
Works(c, asks, then) == coord' = [coord EXCEPT ![c].pc = "work", ![c].todo = asks, ![c].then = then]

_decide_view(p) == Ask(Key("decide", p, 0, {}), {}, "decide")
DecideAsk(p) == Ask(Key("intent", p, 0, {}), {}, "decide")
hosted_decide_contexts(c) ==
    /\ coord[c].pc = "decide"
    /\ IF phase = "decide"
        THEN IF Fcfs THEN Works(c, {_decide_view(p) : p \in Participants}, "decided")
             ELSE Works(c, {DecideAsk(p) : p \in Participants}, "to_match")
        ELSE Raise(c)
    /\ UNCHANGED <<run, phase, timeVars, marketVars, task>>

\* The directory of a buyer is frozen the first time it is asked for.
FrozenSession(b) ==
    IF session[b] = NoSession THEN [status |-> "active", attempts |-> 0, directory |-> Directory(b)]
    ELSE session[b]
RfqAsk(b) ==
    Ask(Key("rfq", b, FrozenSession(b).attempts + 1, {}), FrozenSession(b).directory \ Tried(b), "match")

\* A first RFQ of every buyer without one.
agent_market_rfq_contexts(c) ==
    LET buyers == {b \in Participants : Open(b, "buy")}
        asking == {b \in buyers : /\ FrozenSession(b).status = "active"
                                  /\ FrozenSession(b).attempts < MaxAttempts
                                  /\ ~Unresolved(b)
                                  /\ FrozenSession(b).directory \ Tried(b) # {}}
    IN  /\ coord[c].pc = "match"
        /\ IF phase = "match"
            THEN /\ session' = [b \in Participants |-> IF b \in buyers THEN FrozenSession(b) ELSE session[b]]
                 /\ Works(c, {RfqAsk(b) : b \in asking}, "to_negotiate")
            ELSE Raise(c) /\ UNCHANGED session
        /\ UNCHANGED <<run, phase, timeVars, intent, slot, request, task>>

\* Every open seller with requests is asked once for this set of requests.
SelectAsk(s) == Ask(Key("select", s, 0, Pending(s)), {}, Relative)
agent_market_select_contexts(c) ==
    /\ coord[c].pc = "negotiate"
    /\ IF phase = "negotiate"
        THEN Works(c, {SelectAsk(s) : s \in {p \in Participants : Open(p, "sell") /\ Pending(p) # {}}},
                   "materialise")
        ELSE Raise(c)
    /\ UNCHANGED <<run, phase, timeVars, marketVars, task>>

\* A buyer whose request came to nothing may try another seller of its
\* directory; a session without one left is over.
SellersLeft(b) == {s \in session[b].directory \ Tried(b) : Open(s, "sell")}
agent_market_fallback_rfq_contexts(c) ==
    LET again == {b \in Participants :
                    /\ session[b].status = "active" /\ session[b].attempts \in 1 .. MaxAttempts - 1
                    /\ Open(b, "buy") /\ ~Unresolved(b)}
        asking == {b \in again : SellersLeft(b) # {}}
        open == phase = "negotiate" /\ clock # "late"
    IN  /\ coord[c].pc = "fallback"
        /\ session' = [b \in Participants |-> IF open /\ b \in again \ asking
                            THEN [session[b] EXCEPT !.status = "completed"] ELSE session[b]]
        /\ IF open /\ asking # {}
            THEN Works(c, {Ask(Key("rfq", b, session[b].attempts + 1, {}), SellersLeft(b), Relative) :
                            b \in asking}, "enter")
            ELSE To(c, "complete")
        /\ UNCHANGED <<run, phase, timeVars, intent, slot, request, task>>

\* The phase moves unless another coordinator moved it before.
advance_agent_market_stage(c, expected, next) ==
    /\ coord[c].pc = [match |-> "to_match", negotiate |-> "to_negotiate"][next]
    /\ IF phase \in {expected, next}
        THEN To(c, "enter") /\ phase' = next /\ clock' = IF phase = next THEN clock ELSE "early"
        ELSE Raise(c) /\ UNCHANGED <<phase, clock>>
    /\ UNCHANGED <<run, over, marketVars, task>>

\* Every engagement without a negotiation gets one, opened by the price of
\* the request.
OpenNegotiation(r) == [request[r] EXCEPT !.turns = 1]
materialize_agent_market_engagements(c) ==
    /\ coord[c].pc = "materialise"
    /\ request' = [r \in Ids |-> IF request[r].engagement = "active" /\ request[r].turns = 0
                                     THEN OpenNegotiation(r) ELSE request[r]]
    /\ To(c, "talks")
    /\ UNCHANGED <<run, phase, timeVars, intent, slot, session, task>>

\* The next turn of a negotiation, asked for when the task is created.
Turn(r) == Ask(Key("turn", Nobody, 0, {r}), {}, "none")

active_hosted_negotiation_ids(c) ==
    /\ coord[c].pc = "talks"
    /\ Works(c, {Turn(r) : r \in {x \in Ids : Active(x)}}, IF Fcfs THEN "complete" ELSE "fallback")
    /\ UNCHANGED <<run, phase, timeVars, marketVars, task>>

\* The decisions are paired and the round goes on without a deadline of its own.
pair_hosted_round(c) ==
    /\ coord[c].pc = "pair"
    /\ phase' = IF phase = "decide" THEN "negotiate" ELSE phase
    /\ clock' = IF phase = "decide" THEN "early" ELSE clock
    /\ _pair_locked_round
    /\ To(c, "paired")
    /\ UNCHANGED <<run, over, slot, session, task>>

-----------------------------------------------------------------------------
(* Creating tasks: ArenaTaskFactory._create *)

Created(c, x, key) ==
    coord' = [coord EXCEPT ![c].todo = @ \ {x}, ![c].wait = @ \cup {key}]
Insert(key, input, deadline) ==
    task' = [k \in DOMAIN task \cup {key} |->
                IF k \in DOMAIN task THEN task[k]
                ELSE [input |-> input, deadline |-> deadline, answer |-> NoAct, projected |-> FALSE, at |-> 0]]

\* The key is taken, and the task that has it was asked with other content.
\* A deadline that was counted from the time of asking is never the same.
Conflicts(x) ==
    /\ x.key \in DOMAIN task
    /\ \/ "own" \in {x.deadline, task[x.key].deadline}
       \/ task[x.key].input # x.input

\* Whether the deadline of x may be in the past, or may be in the future.  One
\* of an earlier phase, or counted from the time of asking, may be either.
MayBeLate(x) == x.deadline = phase => clock = "late"
MayBeInTime(x) == x.deadline = phase => clock # "late"

\* Tasks are created one after the other, in the order of their contexts.
FirstOf(asks) == CHOOSE x \in asks : TRUE

create_task(c, x) ==
    /\ coord[c].pc = "work" /\ x.key.kind # "turn"
    /\ IF x.key \in DOMAIN task
        THEN /\ IF Conflicts(x) THEN Raise(c) ELSE Created(c, x, x.key)
             /\ UNCHANGED task
        ELSE \/ MayBeInTime(x) /\ Insert(x.key, x.input, x.deadline) /\ Created(c, x, x.key)
             \/ MayBeLate(x) /\ Raise(c) /\ UNCHANGED task
    /\ UNCHANGED <<run, phase, timeVars, marketVars>>

\* The task of the participant whose turn it is.
hosted_negotiation_context(r) == Key("negotiate", Speaker(r), request[r].turns + 1, {r})

\* The task of a turn is the same whoever asks for it.  A turn whose
\* action_deadline_at has passed before its task exists raises.
create_negotiate_task(c, x) ==
    LET r == CHOOSE y \in x.key.about : TRUE
        key == hosted_negotiation_context(r)
    IN  /\ coord[c].pc = "work" /\ x.key.kind = "turn"
        /\ \/ /\ ~Active(r)
              /\ coord' = [coord EXCEPT ![c].todo = @ \ {x}]
              /\ UNCHANGED task
           \/ /\ Active(r)
              /\ Insert(key, {}, "turn")
              /\ Created(c, x, key)
           \/ /\ Active(r) /\ key \notin DOMAIN task
              /\ Raise(c)
              /\ UNCHANGED task
        /\ UNCHANGED <<run, phase, timeVars, marketVars>>

-----------------------------------------------------------------------------
(* Collecting results: _wait_apply_and_project_market_tasks and
   _run_agent_market_negotiations *)

Answered(t) == t \in DOMAIN task /\ (task[t].projected \/ task[t].answer # NoAct)

\* A result has come.  The lease is renewed before the result is applied.
renew_hosted_run_lease(c, t) ==
    /\ coord[c].pc = "work" /\ coord[c].todo = {} /\ Answered(t)
    /\ IF Owns(c) /\ run.live
        THEN coord' = [coord EXCEPT ![c].pc = "apply", ![c].hold = t]
        ELSE Raise(c)
    /\ UNCHANGED <<run, phase, timeVars, marketVars, task>>

\* The result in hand is done with; a negotiation goes on.
Collected(c) ==
    LET t == coord[c].hold IN
    coord' = [coord EXCEPT ![c].pc = "work", ![c].hold = NoKey, ![c].wait = @ \ {t},
                           ![c].todo = IF t.kind = "negotiate" THEN {Turn(r) : r \in t.about} ELSE {}]

ApplyResult(c) ==
    LET t == coord[c].hold IN
    /\ coord[c].pc = "apply"
    /\ \/ /\ t.kind = "negotiate"
          /\ apply_hosted_negotiation_action(t)
          /\ Collected(c)
          /\ UNCHANGED <<run, over>>
       \/ /\ t.kind \notin {"negotiate", "decide"}
          /\ project_agent_market_application(t)
          /\ Collected(c)
          /\ UNCHANGED <<run, phase, timeVars>>
       \/ /\ t.kind \notin {"negotiate", "decide"} /\ ProjectionRaises(t)
          /\ Raise(c)
          /\ UNCHANGED <<run, phase, timeVars, marketVars, task>>

_consume_and_apply_decision(c) ==
    /\ coord[c].pc = "apply" /\ coord[c].hold.kind = "decide"
    /\ apply_hosted_decision(coord[c].hold)
    /\ Collected(c)
    /\ UNCHANGED <<run, phase, timeVars, slot, session, request>>

StageDone(c) ==
    /\ coord[c].pc = "work" /\ coord[c].todo = {} /\ coord[c].wait = {}
    /\ coord' = [coord EXCEPT ![c].pc = coord[c].then, ![c].then = "none"]
    /\ UNCHANGED <<run, phase, timeVars, marketVars, task>>

\* AgentDrivenMarketProjectionWorker: any result without a receipt.
ProjectionWorker(t) ==
    /\ t.kind \notin {"negotiate", "decide"} /\ Answered(t) /\ ~task[t].projected
    /\ project_agent_market_application(t)
    /\ UNCHANGED <<run, phase, timeVars, coord>>

-----------------------------------------------------------------------------
(* The Agents, the clock, settlement and the orchestrator *)

\* The actions the candidate rules let through for a task, the default of its
\* kind aside.
Candidates(t) ==
    CASE t.kind = "intent" -> {Act(i.side, Nobody, i.limit) : i \in Wants[t.of]}
      [] t.kind = "decide" -> {Act(i.side, Nobody, i.limit) : i \in Bids[t.of]}
      [] t.kind = "rfq" -> {Act("pass", Nobody, 0)}
            \cup {Act("request", s, price) : s \in task[t].input,
                                             price \in {q \in Prices : q <= intent[t.of].limit}}
      [] t.kind = "select" -> {Act("reject", Nobody, 0)} \cup {Act("engage", r[1], 0) : r \in t.about}
      [] t.kind = "negotiate" ->
            LET r == CHOOSE x \in t.about : TRUE IN
            {a \in {Act("reject", Nobody, 0)} : t.n > 1}
            \cup {a \in {Act("accept", Nobody, 0)} : t.n > 1 /\ ~outside_limit(r, request[r].price)}
            \cup {Act("propose", Nobody, price) :
                    price \in {q \in Prices : t.n < MaxTurns /\ ~outside_limit(r, q)}}

\* The first result of a task is applied: what derive_application makes of it.
\* Of the decisions of fcfs.v1 the order in which they are received matters.
Received == Cardinality({t \in DOMAIN task : task[t].at > 0})
derive_application(t) ==
    /\ task[t].answer = NoAct /\ ~task[t].projected
    /\ \E a \in Candidates(t) \cup {Act("default", Nobody, 0)} :
            task' = [task EXCEPT ![t].answer = a, ![t].at = IF t.kind = "decide" THEN Received + 1 ELSE 0]
    /\ UNCHANGED <<run, phase, timeVars, marketVars, coord>>

ClockTicks ==
    /\ phase \in Trading /\ clock # "late" /\ (Fcfs => phase = "decide")
    /\ clock' = IF clock = "early" /\ phase = "negotiate" THEN "near" ELSE "late"
    /\ UNCHANGED <<run, phase, over, marketVars, task, coord>>
\* The intents outlive the decide phase by a fixed time, whatever the later
\* phases take.
IntentsExpire ==
    /\ phase # "completed" /\ ~over /\ ~Fcfs
    /\ phase = "decide" => clock = "late"
    /\ over' = TRUE
    /\ UNCHANGED <<run, phase, clock, marketVars, task, coord>>

\* The settlement of the deal ends, either way.
SettlementEnds(r) ==
    /\ request[r].engagement = "settling"
    /\ \E status \in {"settled", "settlement_failed"} :
            request' = [request EXCEPT ![r].engagement = status]
    /\ UNCHANGED <<run, phase, timeVars, intent, slot, session, task, coord>>

\* Mutant: only the sessions of the buyers are ended, not what they asked for.
_terminalize_agent_market_scope_SessionsOnly ==
    /\ session' = [b \in Participants |-> IF session[b].status = "active"
                        THEN [session[b] EXCEPT !.status = "expired"] ELSE session[b]]
    /\ intent' = [p \in Participants |-> IF intent[p].status \in {"open", "reserved"}
                        THEN [intent[p] EXCEPT !.status = "expired"] ELSE intent[p]]
    /\ UNCHANGED <<request, slot>>
_terminalize_agent_market_scope ==
    /\ session' = [b \in Participants |-> IF session[b].status = "active"
                        THEN [session[b] EXCEPT !.status = "expired"] ELSE session[b]]
    /\ request' = [r \in Ids |-> IF request[r].status = "pending"
                        THEN [request[r] EXCEPT !.status = "expired"] ELSE request[r]]
    /\ slot' = [p \in Participants |-> IF slot[p].status = "reserved" THEN FreeSlot ELSE slot[p]]
    /\ intent' = [p \in Participants |-> IF intent[p].status \in {"open", "reserved"}
                        THEN [intent[p] EXCEPT !.status = "expired"] ELSE intent[p]]

\* Mutant: a round in which something was settled does not close.
advance_round_or_game_NotSettle ==
    /\ run.status = "completed" /\ phase = "negotiate"
    /\ \A r \in Ids : ~Active(r) /\ request[r].engagement # "settling"
    /\ phase' = "completed"
    /\ _terminalize_agent_market_scope
    /\ UNCHANGED <<run, timeVars, task, coord>>
\* The round closes once its run is complete and nothing is being negotiated
\* or settled.
advance_round_or_game ==
    /\ run.status = "completed"
    /\ phase \in {"negotiate", "settle"}
    /\ \A r \in Ids : ~Active(r) /\ request[r].engagement # "settling"
    /\ phase' = "completed"
    /\ _terminalize_agent_market_scope
    /\ UNCHANGED <<run, timeVars, task, coord>>

-----------------------------------------------------------------------------
_process_agent_market(c) ==
    \/ ~Fcfs /\ mark_hosted_run_running(c, "enter", phase, phase \in Trading)
    \/ agent_market_rfq_contexts(c)
    \/ agent_market_select_contexts(c)
    \/ agent_market_fallback_rfq_contexts(c)
    \/ advance_agent_market_stage(c, "decide", "match")
    \/ advance_agent_market_stage(c, "match", "negotiate")
    \/ materialize_agent_market_engagements(c)

\* The stages of fcfs.v1, from the beginning whatever the phase is.
_process(c) ==
    \/ Fcfs /\ mark_hosted_run_running(c, "enter", "decide", TRUE)
    \/ mark_hosted_run_running(c, "decided", "pair", TRUE)
    \/ pair_hosted_round(c)
    \/ mark_hosted_run_running(c, "paired", "talks", TRUE)
    \/ _consume_and_apply_decision(c)

CoordinatorStep(c) ==
    \/ _process_agent_market(c)
    \/ _process(c)
    \/ hosted_decide_contexts(c)
    \/ active_hosted_negotiation_ids(c)
    \/ coord[c].todo # {} /\ create_task(c, FirstOf(coord[c].todo))
    \/ coord[c].todo # {} /\ create_negotiate_task(c, FirstOf(coord[c].todo))
    \/ \E t \in coord[c].wait : renew_hosted_run_lease(c, t)
    \/ ApplyResult(c)
    \/ StageDone(c)
    \/ complete_hosted_run(c)

Next ==
    \/ \E c \in Coordinators : \/ claim_hosted_run(c)
                               \/ CoordinatorStep(c)
                               \/ HeartbeatFails(c)
                               \/ Crash(c)
    \/ LeaseExpires
    \/ \E t \in DOMAIN task : derive_application(t) \/ ProjectionWorker(t)
    \/ ClockTicks \/ IntentsExpire
    \/ \E r \in Ids : SettlementEnds(r)
    \/ advance_round_or_game

Spec == Init /\ [][Next]_vars

\* The coordinator that claimed the run is gone.
Abandoned == run.status \in {"leased", "running"} /\ coord[run.owner].epoch # run.epoch

\* What happens sooner or later unless the round is over: live processes go on,
\* a task is answered by its deadline at the latest, a lease nobody renews runs
\* out, a deal is settled or fails.
Progress ==
    \/ \E c \in Coordinators : claim_hosted_run(c) \/ CoordinatorStep(c)
    \/ LeaseExpires /\ Abandoned
    \/ \E t \in DOMAIN task : derive_application(t)
    \/ \E r \in Ids : SettlementEnds(r)
    \/ advance_round_or_game

-----------------------------------------------------------------------------
(* Properties *)

Deal == {"settling", "settled", "settlement_failed"}
Parties(r) == {r[1], request[r].seller}

\* What a request or pairing that is negotiated or has a deal holds of a party.
Holds(r, p) ==
    IF Fcfs THEN intent[p].status = "paired"
    ELSE /\ slot[p] = [status |-> IF request[r].engagement = "active" THEN "reserved" ELSE "consumed",
                       by |-> r]
         /\ intent[p].status = "reserved"

\* A buyer has one unresolved RFQ at most, never asks a seller twice, and its
\* session counts what it sent.
RfqBudget ==
    ~Fcfs => \A b \in Participants :
        /\ Cardinality(RequestsOf(b)) = session[b].attempts
        /\ Cardinality({request[r].seller : r \in RequestsOf(b)}) = session[b].attempts
        /\ Cardinality({r \in RequestsOf(b) : request[r].status \in {"pending", "engaged"}}) <= 1

\* Whoever projects which result in whatever order, request, engagement, slots
\* and intents tell one story: an active engagement has an engaged request and
\* holds the slots and the intents of both sides, a deal has consumed them, and
\* nothing is held without either.  So nobody is in two engagements or deals.
\* Of fcfs.v1 the same: a paired entry has one pairing.  And each buyer keeps
\* to its RFQ budget.
RowsAgree ==
    /\ RfqBudget
    /\ phase # "completed" => \A r \in Ids :
        /\ request[r].engagement \in Deal \cup {"active"} <=> request[r].status = "engaged"
        /\ request[r].status = "engaged" => \A p \in Parties(r) : Holds(r, p)
    /\ phase # "completed" => \A p \in Participants :
        /\ slot[p] # FreeSlot => p \in Parties(slot[p].by) /\ request[slot[p].by].status = "engaged"
        /\ intent[p].status = "paired" =>
            Cardinality({r \in Ids : request[r].status # "none" /\ p \in Parties(r)}) = 1

\* Pairing is first come, first served in the order the results were received,
\* however the coordinator came to apply them: of a buyer and a seller of the
\* pool whose limits fit and who are not paired with each other, one is paired
\* with someone who came before the other.
FirstComeFirstServed ==
    Fcfs /\ phase # "decide" =>
        LET came(p) == task[_decide_view(p).key].at
            pool(side) == {p \in Participants : intent[p] # NoIntent /\ intent[p].side = side}
            paired(b, s) == request[<<b, 1>>].seller = s
        IN  \A b \in pool("buy"), s \in pool("sell") :
                \/ paired(b, s) \/ ~_limits_overlap(b, s)
                \/ \E x \in pool("sell") : paired(b, x) /\ came(x) < came(s)
                \/ \E x \in pool("buy") : paired(x, s) /\ came(x) < came(b)

\* A deal binds nobody beyond the limit of its intent or decision, if it has one.
DealWithinLimits ==
    \A r \in Ids : request[r].engagement \in Deal =>
        /\ intent[request[r].seller].limit <= request[r].price
        /\ intent[r[1]].limit # NoLimit => request[r].price <= intent[r[1]].limit

\* A round that is not closed, and whose run is not reported as failed, can go
\* on: it never waits for a result, a turn or a settlement that has come.
\* (The run may be claimed MaxClaims times.)
NeverStuck ==
    \/ phase = "completed" \/ run.status = "failed"
    \/ Abandoned /\ run.epoch = MaxClaims
    \/ ENABLED Progress

\* A closed round has no open request, session, intent or slot, and no result
\* projected late, by whichever process, opens one again.
ClosedClean ==
    phase = "completed" =>
        /\ \A r \in Ids : request[r].status # "pending"
        /\ \A p \in Participants :
            /\ slot[p].status # "reserved" /\ session[p].status # "active"
            /\ intent[p].status \notin {"open", "reserved"}
=============================================================================
