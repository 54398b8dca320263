--------------------------- MODULE PaymentLedger ---------------------------
(***************************************************************************)
(* PaymentMandates and their reservations: the tables payment_mandates and *)
(* payment_reservations as PostgresPaymentRepository changes them.  Each   *)
(* action is one database transaction.  A call the code refuses (it raises *)
(* MandateRejected, or a UNIQUE constraint does) rolls back and changes    *)
(* nothing; Can... says when a call is accepted, so that the modules built *)
(* on this one can follow the refusal.                                     *)
(*                                                                         *)
(* Next is the most general client: any caller may make any call with any  *)
(* argument at any time.                                                   *)
(***************************************************************************)
EXTENDS DealTerms

CONSTANTS
    Total,          \* Total[S]: what SQL's sum(amount_atomic) returns over the rows S
    Mandates,       \* mandate_id
    NoMandate,
    Owner,          \* Owner[m]: the participant of the mandate's user
    ValidFrom,      \* ValidFrom[m], ExpiresAt[m]: the mandate's window
    ExpiresAt,
    MaxPerPayment,  \* max_per_payment_atomic
    MaxCumulative,  \* max_cumulative_atomic
    AllowedPayees,  \* AllowedPayees[m]: allowed_payees
    SameGameRule,   \* mandates with allowed_payee_rule same_game_settlement_account
    Reasons,        \* release reasons
    NoReason,
    MaxClock,       \* bound of the clock
    MaxCash         \* bound of the cash a general client may report

ASSUME LedgerAssumption ==
    /\ NoMandate \notin Mandates
    /\ NoReason \notin Reasons
    /\ "chain_transaction_reverted" \in Reasons
    /\ Owner \in [Mandates -> Participants]
    /\ ValidFrom \in [Mandates -> Nat]
    /\ ExpiresAt \in [Mandates -> Nat]
    /\ MaxPerPayment \in [Mandates -> Nat]
    /\ MaxCumulative \in [Mandates -> Nat]
    /\ AllowedPayees \in [Mandates -> SUBSET Participants]
    /\ SameGameRule \subseteq Mandates
    /\ MaxClock \in Nat
    /\ MaxCash \in Nat

\* sum() is additive over disjoint sets of rows, and 0 over no rows.
ASSUME TotalAssumption ==
    /\ Total \in [SUBSET Intents -> Nat]
    /\ \A i \in Intents : Total[{i}] = Amount[i]
    /\ \A S, T \in SUBSET Intents :
          S \cap T = {} => Total[S \cup T] = Total[S] + Total[T]

VARIABLES
    mandate,        \* mandate[m]: status, reserved_atomic, consumed_atomic
    reservation,    \* reservation[i]: the row of intent i (UNIQUE settlement_intent_id)
    clock           \* the wall clock every process reads

ledgerVars == <<mandate, reservation>>

NoMandateRow == [status |-> "absent", reserved |-> 0, consumed |-> 0]
NoReservation ==
    [status |-> "none", mandate |-> NoMandate, tx |-> NoTx, reason |-> NoReason]

MandateRow == [status : {"absent", "active", "revoked"}, reserved : Int, consumed : Int]
ReservationRow ==
    [status : {"none", "reserved", "submitted", "consumed", "released"},
     mandate : Mandates \cup {NoMandate},
     tx : Txs \cup {NoTx},
     reason : Reasons \cup {NoReason}]

LedgerTypeOK ==
    /\ mandate \in [Mandates -> MandateRow]
    /\ reservation \in [Intents -> ReservationRow]
    /\ clock \in 0..MaxClock

LedgerInit ==
    /\ mandate = [m \in Mandates |-> NoMandateRow]
    /\ reservation = [i \in Intents |-> NoReservation]
    /\ clock = 0

-----------------------------------------------------------------------------
(* Mandates *)

InWindow(m, now) == ValidFrom[m] <= now /\ now < ExpiresAt[m]

WithStatus(k, s) == [k EXCEPT !.status = s]

\* create_mandate revokes the user's expired mandates before it inserts.
SweepExpired(m) ==
    [k \in Mandates |->
        IF /\ k # m
           /\ Owner[k] = Owner[m]
           /\ mandate[k].status = "active"
           /\ ExpiresAt[k] <= clock
        THEN WithStatus(mandate[k], "revoked")
        ELSE mandate[k]]

\* The partial unique index refuses a second unrevoked mandate of a user.
create_mandate(m) ==
    /\ mandate[m].status = "absent"
    /\ \A k \in Mandates \ {m} :
          Owner[k] = Owner[m] => SweepExpired(m)[k].status # "active"
    /\ mandate' = [SweepExpired(m) EXCEPT ![m] = WithStatus(@, "active")]
    /\ UNCHANGED reservation

revoke_mandate(m) ==
    /\ mandate[m].status # "absent"
    /\ mandate' = [mandate EXCEPT ![m] = WithStatus(@, "revoked")]
    /\ UNCHANGED reservation

\* The mandates active_mandate_for_settlement may return at time now.
ActiveMandates(i, now) ==
    {m \in Mandates :
        /\ Owner[m] = Buyer[i]
        /\ \/ /\ reservation[i].mandate = m
              /\ reservation[i].status \in {"reserved", "submitted"}
           \/ mandate[m].status = "active" /\ InWindow(m, now)}

-----------------------------------------------------------------------------
(* Reservations *)

\* What the calls write: the reservation's row, and its mandate's counters.
ReservedRow(m) == [NoReservation EXCEPT !.status = "reserved", !.mandate = m]
SubmittedRow(r, t) == [r EXCEPT !.status = "submitted", !.tx = t]
ReleasedRow(r, why) == [r EXCEPT !.status = "released", !.tx = NoTx, !.reason = why]
ConsumedRow(r, t) == [r EXCEPT !.status = "consumed", !.tx = t]
Reserve(k, a) == [k EXCEPT !.reserved = @ + a]
Unreserve(k, a) == [k EXCEPT !.reserved = @ - a]
Consume_KeepsReserved(k, a) == [k EXCEPT !.consumed = @ + a]
Consume(k, a) ==
    [status |-> k.status, reserved |-> k.reserved - a, consumed |-> k.consumed + a]

Outstanding(p) ==
    {i \in Intents : Buyer[i] = p /\ reservation[i].status \in {"reserved", "submitted"}}

OutstandingAmount(p) == Total[Outstanding(p)]

PayeeAllowed(m, i, payeeTrading) ==
    IF m \in SameGameRule THEN payeeTrading ELSE Seller[i] \in AllowedPayees[m]

\* Mutant: the budget check forgets what is reserved.
MandateCovers_ConsumedOnly(m, i, now, payeeTrading) ==
    /\ mandate[m].status = "active"
    /\ InWindow(m, now)
    /\ PayeeAllowed(m, i, payeeTrading)
    /\ Amount[i] <= MaxPerPayment[m]
    /\ mandate[m].consumed + Amount[i] <= MaxCumulative[m]

\* _validate_mandate_row
MandateCovers(m, i, now, payeeTrading) ==
    /\ mandate[m].status = "active"
    /\ InWindow(m, now)
    /\ PayeeAllowed(m, i, payeeTrading)
    /\ Amount[i] <= MaxPerPayment[m]
    /\ mandate[m].reserved + mandate[m].consumed + Amount[i] <= MaxCumulative[m]

\* The first read of reserve_mandate: an existing reservation of the same
\* mandate is returned whatever its status, one of another mandate is refused.
ReservationMatches(m, i) ==
    reservation[i].status # "none" /\ reservation[i].mandate = m

\* The rest of reserve_mandate, under the lock on the mandate row: the checks
\* and the INSERT.  cash is the buyer's cash_atomic, payeeTrading says that
\* the payee is a ready participant that is active or settling.
CanReserve(m, i, now, cash, payeeTrading) ==
    /\ Owner[m] = Buyer[i]
    /\ OutstandingAmount(Buyer[i]) + Amount[i] <= cash
    /\ MandateCovers(m, i, now, payeeTrading)
    /\ reservation[i].status = "none"
    /\ \A j \in Intents :      \* UNIQUE (game_id, round_id, buyer_participant_id)
          Buyer[j] = Buyer[i] /\ RoundOf[j] = RoundOf[i] => reservation[j].status = "none"

reserve_mandate(m, i, now, cash, payeeTrading) ==
    /\ CanReserve(m, i, now, cash, payeeTrading)
    /\ reservation' = [reservation EXCEPT ![i] = ReservedRow(m)]
    /\ mandate' = [mandate EXCEPT ![m] = Reserve(@, Amount[i])]

CanSubmit(i, t) ==
    \/ reservation[i].status = "reserved"
    \/ reservation[i].status \in {"submitted", "consumed"} /\ reservation[i].tx = t

submit_reservation(i, t) ==
    /\ CanSubmit(i, t)
    /\ reservation' = IF reservation[i].status = "reserved"
                      THEN [reservation EXCEPT ![i] = SubmittedRow(@, t)]
                      ELSE reservation
    /\ UNCHANGED mandate

\* _finalize_reservation with action = "release"
CanRelease(i, why) ==
    \/ reservation[i].status = "reserved"
    \/ reservation[i].status = "released" /\ reservation[i].reason = why

release_reservation(i, why) ==
    \/ /\ reservation[i].status = "reserved"
       /\ reservation' = [reservation EXCEPT ![i] = ReleasedRow(@, why)]
       /\ mandate' = [mandate EXCEPT ![reservation[i].mandate] = Unreserve(@, Amount[i])]
    \/ /\ reservation[i].status = "released"
       /\ reservation[i].reason = why
       /\ UNCHANGED ledgerVars

\* _finalize_reservation with action = "consume"
CanConsume(i) == reservation[i].status \in {"reserved", "submitted"}

consume_reservation(i, t) ==
    /\ CanConsume(i)
    /\ reservation' = [reservation EXCEPT ![i] = ConsumedRow(@, t)]
    /\ mandate' = [mandate EXCEPT ![reservation[i].mandate] = Consume(@, Amount[i])]

\* reconcile_finalized_reservations locks and finalizes every submitted row
\* whose intent has chain evidence, in one transaction.  paid and reverted
\* are the intents in the corresponding status.
Spent(m, S) == Total[{i \in S : reservation[i].mandate = m}]

reconcile_finalized_reservations(paid, reverted) ==
    LET submitted == {i \in Intents : reservation[i].status = "submitted"}
        consumed  == submitted \cap paid
        released  == submitted \cap reverted
    IN  /\ reservation' = [i \in Intents |->
              CASE i \in consumed -> ConsumedRow(reservation[i], reservation[i].tx)
                [] i \in released -> ReleasedRow(reservation[i], "chain_transaction_reverted")
                [] OTHER -> reservation[i]]
        /\ mandate' = [m \in Mandates |->
              Unreserve(Consume(mandate[m], Spent(m, consumed)), Spent(m, released))]

Tick == clock < MaxClock /\ clock' = clock + 1

-----------------------------------------------------------------------------
LedgerNext ==
    \/ Tick /\ UNCHANGED ledgerVars
    \/ /\ UNCHANGED clock
       /\ \/ \E m \in Mandates : create_mandate(m) \/ revoke_mandate(m)
          \/ \E m \in Mandates, i \in Intents, now \in 0..MaxClock,
                cash \in 0..MaxCash, payeeTrading \in BOOLEAN :
                reserve_mandate(m, i, now, cash, payeeTrading)
          \/ \E i \in Intents, t \in Txs : submit_reservation(i, t) \/ consume_reservation(i, t)
          \/ \E i \in Intents, why \in Reasons : release_reservation(i, why)
          \/ \E paid \in SUBSET Intents : \E reverted \in SUBSET (Intents \ paid) :
                reconcile_finalized_reservations(paid, reverted)

LedgerSpec == LedgerInit /\ [][LedgerNext]_<<mandate, reservation, clock>>

-----------------------------------------------------------------------------
(* Properties *)

HeldBy(m, statuses) ==
    {i \in Intents : reservation[i].mandate = m /\ reservation[i].status \in statuses}

\* The two counters of a mandate are the sums of its live and of its consumed
\* reservations, whatever calls are made, repeated or refused: reserve,
\* release, consume and reconcile each move exactly the amount of the rows
\* they change, once (postgres.py: "transaction-maintained Mandate counters").
BudgetAccounts ==
    \A m \in Mandates :
        /\ mandate[m].reserved = Total[HeldBy(m, {"reserved", "submitted"})]
        /\ mandate[m].consumed = Total[HeldBy(m, {"consumed"})]

\* A mandate is never allocated beyond its cumulative limit: what is reserved
\* and what is consumed together stay within max_cumulative_atomic.
WithinBudget ==
    \A m \in Mandates : mandate[m].reserved + mandate[m].consumed <= MaxCumulative[m]

\* A live reservation names a mandate that exists and covers its payer, and a
\* submitted or consumed one names the transaction that pays it.
ReservationsGrounded ==
    \A i \in Intents :
        LET r == reservation[i] IN
        /\ (r.status = "none") <=> (r.mandate = NoMandate)
        /\ r.status # "none" =>
              /\ mandate[r.mandate].status # "absent"
              /\ Owner[r.mandate] = Buyer[i]
        /\ (r.status \in {"submitted", "consumed"}) <=> (r.tx # NoTx)
        /\ (r.status = "released") <=> (r.reason # NoReason)

\* What no step may do: change a consumed or a released reservation, or lend
\* anything on a mandate that is already revoked.
FinalReservationsFrozen ==
    [][/\ \A i \in Intents :
            reservation[i].status \in {"consumed", "released"} =>
                reservation'[i] = reservation[i]
       /\ \A m \in Mandates :
            mandate[m].status = "revoked" =>
                /\ mandate'[m].status = "revoked"
                /\ mandate'[m].reserved <= mandate[m].reserved]_ledgerVars
-----------------------------------------------------------------------------
(* The inductive invariant *)

\* The calls of the repository, whatever time, cash and payee they are made with.
LedgerCall ==
    \/ \E m \in Mandates : create_mandate(m) \/ revoke_mandate(m)
    \/ \E m \in Mandates, i \in Intents : \E now, cash, payeeTrading :
          reserve_mandate(m, i, now, cash, payeeTrading)
    \/ \E i \in Intents, t \in Txs : submit_reservation(i, t) \/ consume_reservation(i, t)
    \/ \E i \in Intents, why \in Reasons : release_reservation(i, why)
    \/ \E paid \in SUBSET Intents : \E reverted \in SUBSET (Intents \ paid) :
          reconcile_finalized_reservations(paid, reverted)

\* The references, the accounts and the limits together: the step of one call
\* keeps each of them only by the others.
LedgerInv == LedgerTypeOK /\ ReservationsGrounded /\ BudgetAccounts /\ WithinBudget
=============================================================================
