------------------------ MODULE SettlementBooks_proofs ------------------------
(***************************************************************************)
(* The two books of a settlement, each on its own, for every set of deals, *)
(* participants, mandates and rounds.  The budget ledger: counters are the *)
(* sums of the reservations and stay within the limits, and final rows are *)
(* frozen.  The Arena's settlement rows: no participant is in two deals at *)
(* once, every frozen deal stays covered until it is committed, and the    *)
(* rows implement the atomic exchange of DealExchange.                     *)
(***************************************************************************)
EXTENDS PaymentLedger, SettlementExchange, TLAPS

-----------------------------------------------------------------------------
(* The ledger: sums and rows *)

ledgerAll == <<mandate, reservation, clock>>

-----------------------------------------------------------------------------
(* Sums *)

\* Adding one row to a set of rows adds its amount to SQL's sum().
LEMMA TotalAdd ==
    ASSUME NEW S \in SUBSET Intents, NEW i \in Intents \ S
    PROVE  Total[S \cup {i}] = Total[S] + Amount[i]
<1>1. S \cap {i} = {} /\ {i} \in SUBSET Intents
  BY Zenon
<1> QED
  BY ZenonT(60), <1>1, TotalAssumption

\* Taking rows out of a set takes exactly their amounts out of sum().
LEMMA TotalRemove ==
    ASSUME NEW S \in SUBSET Intents, NEW T \in SUBSET S
    PROVE  Total[S \ T] = Total[S] - Total[T]
<1>1. (S \ T) \cap T = {} /\ (S \ T) \cup T = S
  BY Zenon
<1>2. S \ T \in SUBSET Intents /\ T \in SUBSET Intents
  BY Zenon
<1>3. Total[S] = Total[S \ T] + Total[T]
  BY <1>1, <1>2, TotalAssumption, Zenon
<1>4. Total[S] \in Nat /\ Total[S \ T] \in Nat /\ Total[T] \in Nat
  BY <1>2, TotalAssumption, Zenon
<1> QED
  BY <1>3, <1>4

\* sum() of any set of rows is a natural number.
LEMMA TotalType == ASSUME NEW S \in SUBSET Intents PROVE Total[S] \in Nat
BY TotalAssumption, Zenon

\* Amounts are positive integers.
LEMMA AmountType == \A i \in Intents : Amount[i] \in Int /\ Amount[i] > 0
BY TermsAssumption

\* sum() over no rows is 0.
LEMMA TotalEmpty == Total[{}] = 0
<1>1. Total[{}] = Total[{}] + Total[{}] /\ Total[{}] \in Nat
  <2>1. {} \in SUBSET Intents /\ {} \cap {} = {} /\ {} \cup {} = {}
    BY Zenon
  <2> QED
    BY <2>1, TotalAssumption, Zenon
<1>2. \A n \in Nat : n = n + n => n = 0
  OBVIOUS
<1> QED
  BY <1>1, <1>2, Zenon

-----------------------------------------------------------------------------
(* Rows *)

\* Each row update keeps the columns' types and changes only the columns it names.
LEMMA ReservationRows ==
    /\ NoReservation \in ReservationRow
    /\ \A m \in Mandates : ReservedRow(m) \in ReservationRow
    /\ \A r \in ReservationRow, t \in Txs \cup {NoTx} :
          SubmittedRow(r, t) \in ReservationRow /\ ConsumedRow(r, t) \in ReservationRow
    /\ \A r \in ReservationRow, why \in Reasons : ReleasedRow(r, why) \in ReservationRow
<1>1. NoReservation \in ReservationRow /\ \A m \in Mandates : ReservedRow(m) \in ReservationRow
  BY Zenon DEF ReservationRow, NoReservation, ReservedRow
<1>2. \A r \in ReservationRow, t \in Txs \cup {NoTx} : SubmittedRow(r, t) \in ReservationRow
  BY Zenon DEF ReservationRow, SubmittedRow
<1>3. \A r \in ReservationRow, t \in Txs \cup {NoTx} : ConsumedRow(r, t) \in ReservationRow
  BY Zenon DEF ReservationRow, ConsumedRow
<1>4. \A r \in ReservationRow, why \in Reasons : ReleasedRow(r, why) \in ReservationRow
  BY Zenon DEF ReservationRow, ReleasedRow
<1> QED
  BY <1>1, <1>2, <1>3, <1>4, Zenon

\* A change of a mandate's status leaves its counters alone.
LEMMA StatusRows ==
    ASSUME NEW k \in MandateRow, NEW s \in {"absent", "active", "revoked"}
    PROVE  /\ WithStatus(k, s) \in MandateRow
           /\ WithStatus(k, s).status = s
           /\ WithStatus(k, s).reserved = k.reserved
           /\ WithStatus(k, s).consumed = k.consumed
BY Zenon DEF MandateRow, WithStatus

\* What reserve, release and consume do to the fields of a mandate row.
LEMMA CounterRows ==
    ASSUME NEW k \in MandateRow, NEW a \in Int
    PROVE  /\ Reserve(k, a) \in MandateRow
           /\ Unreserve(k, a) \in MandateRow
           /\ Consume(k, a) \in MandateRow
           /\ Reserve(k, a).status = k.status
           /\ Reserve(k, a).reserved = k.reserved + a
           /\ Reserve(k, a).consumed = k.consumed
           /\ Unreserve(k, a).status = k.status
           /\ Unreserve(k, a).reserved = k.reserved - a
           /\ Unreserve(k, a).consumed = k.consumed
           /\ Consume(k, a).status = k.status
           /\ Consume(k, a).reserved = k.reserved - a
           /\ Consume(k, a).consumed = k.consumed + a
BY DEF MandateRow, Reserve, Unreserve, Consume

-----------------------------------------------------------------------------
(* Types *)

\* The general client makes calls, and time passes.
LEMMA GeneralClient ==
    ASSUME [LedgerNext]_ledgerAll
    PROVE  \/ (LedgerCall \/ UNCHANGED ledgerVars) /\ UNCHANGED clock
           \/ Tick /\ UNCHANGED ledgerVars
<1>1. CASE UNCHANGED ledgerAll
  BY <1>1, Zenon DEF ledgerAll, ledgerVars
<1>2. CASE LedgerNext
  BY <1>2, Zenon DEF LedgerNext, LedgerCall
<1> QED
  BY <1>1, <1>2, Zenon

\* Every call keeps the types of the rows.
LEMMA LedgerTypeCall ==
    ASSUME LedgerTypeOK, LedgerCall \/ UNCHANGED ledgerVars, UNCHANGED clock
    PROVE  LedgerTypeOK'
<1> USE DEF LedgerTypeOK
<1>1. CASE UNCHANGED ledgerVars
  BY <1>1, Zenon DEF ledgerVars
<1>3. ASSUME NEW m \in Mandates, create_mandate(m), UNCHANGED clock PROVE LedgerTypeOK'
  <2>1. SweepExpired(m) \in [Mandates -> MandateRow]
    BY StatusRows, Zenon DEF SweepExpired
  <2> QED
    BY <1>3, <2>1, StatusRows, Zenon DEF create_mandate
<1>4. ASSUME NEW m \in Mandates, revoke_mandate(m), UNCHANGED clock PROVE LedgerTypeOK'
  BY <1>4, StatusRows, Zenon DEF revoke_mandate
<1>5. ASSUME NEW m \in Mandates, NEW i \in Intents, NEW now, NEW funds, NEW payee,
             reserve_mandate(m, i, now, funds, payee), UNCHANGED clock
      PROVE  LedgerTypeOK'
  BY <1>5, CounterRows, AmountType, ReservationRows, Zenon DEF reserve_mandate
<1>6. ASSUME NEW i \in Intents, NEW t \in Txs, submit_reservation(i, t), UNCHANGED clock
      PROVE  LedgerTypeOK'
  BY <1>6, ReservationRows, Zenon DEF submit_reservation
<1>7. ASSUME NEW i \in Intents, NEW t \in Txs, consume_reservation(i, t), UNCHANGED clock
      PROVE  LedgerTypeOK'
  BY <1>7, CounterRows, AmountType, ReservationRows, Zenon DEF consume_reservation
<1>8. ASSUME NEW i \in Intents, NEW why \in Reasons, release_reservation(i, why),
             UNCHANGED clock
      PROVE  LedgerTypeOK'
  <2>1. CASE reservation[i].status = "reserved"
    <3>1. reservation' \in [Intents -> ReservationRow]
      BY <1>8, <2>1, ReservationRows DEF release_reservation, ledgerVars
    <3>2. mandate' = [mandate EXCEPT ![reservation[i].mandate] = Unreserve(@, Amount[i])]
      BY <1>8, <2>1, Zenon DEF release_reservation
    <3>3. mandate' \in [Mandates -> MandateRow]
      BY <3>2, CounterRows, AmountType, Zenon
    <3> QED
      BY <1>8, <3>1, <3>3, Zenon
  <2>2. CASE reservation[i].status # "reserved"
    BY <1>8, <2>2, Zenon DEF release_reservation, ledgerVars
  <2> QED
    BY <2>1, <2>2, Zenon
<1>9. ASSUME NEW paid, NEW reverted, reconcile_finalized_reservations(paid, reverted),
             UNCHANGED clock
      PROVE  LedgerTypeOK'
  <2>1. \A m \in Mandates, S \in SUBSET Intents : Spent(m, S) \in Int
    BY TotalAssumption DEF Spent
  <2>2. \A i \in Intents : reservation[i].tx \in Txs \cup {NoTx}
    BY Zenon DEF ReservationRow
  <2>3. reservation' \in [Intents -> ReservationRow]
    BY <1>9, <2>2, ReservationRows, LedgerAssumption, Zenon DEF reconcile_finalized_reservations
  <2> DEFINE submitted == {i \in Intents : reservation[i].status = "submitted"}
  <2>4. \A m \in Mandates :
           Consume(mandate[m], Spent(m, submitted \cap paid)) \in MandateRow
    BY <2>1, CounterRows, Zenon
  <2>5. \A m \in Mandates :
           Unreserve(Consume(mandate[m], Spent(m, submitted \cap paid)),
                     Spent(m, submitted \cap reverted)) \in MandateRow
    BY <2>1, <2>4, CounterRows, Zenon
  <2>6. mandate' \in [Mandates -> MandateRow]
    BY <1>9, <2>5, Zenon DEF reconcile_finalized_reservations
  <2> QED
    BY <1>9, <2>3, <2>6, Zenon
<1> QED
  BY <1>1, <1>3, <1>4, <1>5, <1>6, <1>7, <1>8, <1>9, Zenon DEF LedgerCall

\* Every call leaves the rows of payment_mandates and payment_reservations
\* well formed: statuses, references and counters keep their types.
THEOREM LedgerTypeCorrect == LedgerSpec => []LedgerTypeOK
<1>1. LedgerInit => LedgerTypeOK
  <2>1. NoMandateRow \in MandateRow /\ NoReservation \in ReservationRow
    BY DEF MandateRow, NoMandateRow, ReservationRow, NoReservation
  <2> QED
    BY <2>1, LedgerAssumption DEF LedgerInit, LedgerTypeOK
<1>2. LedgerTypeOK /\ [LedgerNext]_ledgerAll => LedgerTypeOK'
  <2> SUFFICES ASSUME LedgerTypeOK, [LedgerNext]_ledgerAll PROVE LedgerTypeOK'
    BY Zenon
  <2>1. CASE Tick /\ UNCHANGED ledgerVars
    BY <2>1, LedgerAssumption DEF Tick, ledgerVars, LedgerTypeOK
  <2> QED
    BY <2>1, GeneralClient, LedgerTypeCall, Zenon
<1> QED
  BY <1>1, <1>2, PTL DEF LedgerSpec, ledgerAll

-----------------------------------------------------------------------------
(* References *)

\* What each update writes into the columns of a reservation.
LEMMA ReservationFields ==
    /\ \A m \in Mandates :
          /\ ReservedRow(m).status = "reserved" /\ ReservedRow(m).mandate = m
          /\ ReservedRow(m).tx = NoTx /\ ReservedRow(m).reason = NoReason
    /\ \A r \in ReservationRow, t \in Txs \cup {NoTx} :
          /\ SubmittedRow(r, t).status = "submitted" /\ SubmittedRow(r, t).mandate = r.mandate
          /\ SubmittedRow(r, t).tx = t /\ SubmittedRow(r, t).reason = r.reason
          /\ ConsumedRow(r, t).status = "consumed" /\ ConsumedRow(r, t).mandate = r.mandate
          /\ ConsumedRow(r, t).tx = t /\ ConsumedRow(r, t).reason = r.reason
    /\ \A r \in ReservationRow, why \in Reasons :
          /\ ReleasedRow(r, why).status = "released" /\ ReleasedRow(r, why).mandate = r.mandate
          /\ ReleasedRow(r, why).tx = NoTx /\ ReleasedRow(r, why).reason = why
<1>1. \A m \in Mandates :
          /\ ReservedRow(m).status = "reserved" /\ ReservedRow(m).mandate = m
          /\ ReservedRow(m).tx = NoTx /\ ReservedRow(m).reason = NoReason
  BY Zenon DEF ReservationRow, NoReservation, ReservedRow
<1>2. \A r \in ReservationRow, t \in Txs \cup {NoTx} :
          /\ SubmittedRow(r, t).status = "submitted" /\ SubmittedRow(r, t).mandate = r.mandate
          /\ SubmittedRow(r, t).tx = t /\ SubmittedRow(r, t).reason = r.reason
  BY Zenon DEF ReservationRow, SubmittedRow
<1>3. \A r \in ReservationRow, t \in Txs \cup {NoTx} :
          /\ ConsumedRow(r, t).status = "consumed" /\ ConsumedRow(r, t).mandate = r.mandate
          /\ ConsumedRow(r, t).tx = t /\ ConsumedRow(r, t).reason = r.reason
  BY Zenon DEF ReservationRow, ConsumedRow
<1>4. \A r \in ReservationRow, why \in Reasons :
          /\ ReleasedRow(r, why).status = "released" /\ ReleasedRow(r, why).mandate = r.mandate
          /\ ReleasedRow(r, why).tx = NoTx /\ ReleasedRow(r, why).reason = why
  BY Zenon DEF ReservationRow, ReleasedRow
<1> QED
  BY <1>1, <1>2, <1>3, <1>4

\* The status and the mandate of a consumed and of a released row.
LEMMA FinalFields ==
    ASSUME NEW r \in ReservationRow
    PROVE  /\ \A t \in Txs : ConsumedRow(r, t).status = "consumed" /\ ConsumedRow(r, t).mandate = r.mandate
           /\ \A why \in Reasons : ReleasedRow(r, why).status = "released" /\ ReleasedRow(r, why).mandate = r.mandate
BY ReservationFields

\* The columns of a reservation have the types of their row.
LEMMA ReservationRowTypes ==
    \A r \in ReservationRow :
        /\ r.status \in {"none", "reserved", "submitted", "consumed", "released"}
        /\ r.mandate \in Mandates \cup {NoMandate}
        /\ r.tx \in Txs \cup {NoTx}
        /\ r.reason \in Reasons \cup {NoReason}
BY Zenon DEF ReservationRow

\* What a transaction may do to one reservation: leave it, open it on an
\* active mandate of the payer, submit it, or consume or release a live one.
Moved(i) ==
    \/ reservation'[i] = reservation[i]
    \/ \E m \in Mandates : /\ mandate[m].status = "active" /\ Owner[m] = Buyer[i]
                           /\ reservation[i].status = "none"
                           /\ reservation'[i] = ReservedRow(m)
    \/ \E t \in Txs : /\ reservation[i].status = "reserved"
                      /\ reservation'[i] = SubmittedRow(reservation[i], t)
    \/ \E t \in Txs : /\ reservation[i].status \in {"reserved", "submitted"}
                      /\ reservation'[i] = ConsumedRow(reservation[i], t)
    \/ \E why \in Reasons : /\ reservation[i].status \in {"reserved", "submitted"}
                            /\ reservation'[i] = ReleasedRow(reservation[i], why)

\* A row moved in one of those ways stays grounded, as long as no mandate
\* disappears.
LEMMA GroundedMove ==
    ASSUME LedgerTypeOK, ReservationsGrounded,
           \A k \in Mandates : mandate[k].status # "absent" => mandate'[k].status # "absent",
           \A i \in Intents : Moved(i)
    PROVE  ReservationsGrounded'
<1> SUFFICES ASSUME NEW i \in Intents
             PROVE  /\ (reservation'[i].status = "none") <=> (reservation'[i].mandate = NoMandate)
                    /\ reservation'[i].status # "none" =>
                          /\ mandate'[reservation'[i].mandate].status # "absent"
                          /\ Owner[reservation'[i].mandate] = Buyer[i]
                    /\ (reservation'[i].status \in {"submitted", "consumed"})
                          <=> (reservation'[i].tx # NoTx)
                    /\ (reservation'[i].status = "released") <=> (reservation'[i].reason # NoReason)
  BY Zenon DEF ReservationsGrounded
<1> DEFINE r == reservation[i]
<1>1. /\ (r.status = "none") <=> (r.mandate = NoMandate)
      /\ r.status # "none" => mandate[r.mandate].status # "absent" /\ Owner[r.mandate] = Buyer[i]
      /\ (r.status \in {"submitted", "consumed"}) <=> (r.tx # NoTx)
      /\ (r.status = "released") <=> (r.reason # NoReason)
  BY Zenon DEF ReservationsGrounded
<1>2. r \in ReservationRow
  BY Zenon DEF LedgerTypeOK
<1>3. /\ r.status \in {"none", "reserved", "submitted", "consumed", "released"}
      /\ r.mandate \in Mandates \cup {NoMandate}
  BY <1>2, ReservationRowTypes, Zenon
<1>4. NoTx \notin Txs /\ NoReason \notin Reasons /\ NoMandate \notin Mandates
  BY TermsAssumption, LedgerAssumption, Zenon
<1> HIDE DEF r
<1>5. CASE reservation'[i] = reservation[i]
  BY <1>1, <1>3, <1>4, <1>5, Zenon DEF r
<1>6. ASSUME NEW m \in Mandates, mandate[m].status = "active", Owner[m] = Buyer[i],
             reservation'[i] = ReservedRow(m)
      PROVE  reservation'[i].status # "none" /\ mandate'[m].status # "absent"
  <2>1. ReservedRow(m).status = "reserved"
    BY ReservationFields, Zenon
  <2> QED
    BY <1>6, <2>1, Zenon
<1>7. ASSUME NEW m \in Mandates, mandate[m].status = "active", Owner[m] = Buyer[i],
             reservation'[i] = ReservedRow(m)
      PROVE  /\ reservation'[i].status = "reserved" /\ reservation'[i].mandate = m
             /\ reservation'[i].tx = NoTx /\ reservation'[i].reason = NoReason
  BY <1>7, ReservationFields
<1>8. ASSUME NEW t \in Txs, r.status = "reserved", reservation'[i] = SubmittedRow(r, t)
      PROVE  /\ reservation'[i].status = "submitted" /\ reservation'[i].mandate = r.mandate
             /\ reservation'[i].tx = t /\ reservation'[i].reason = r.reason
  BY <1>2, <1>8, ReservationFields
<1>9. ASSUME NEW t \in Txs, reservation'[i] = ConsumedRow(r, t)
      PROVE  /\ reservation'[i].status = "consumed" /\ reservation'[i].mandate = r.mandate
             /\ reservation'[i].tx = t /\ reservation'[i].reason = r.reason
  BY <1>2, <1>9, ReservationFields
<1>10. ASSUME NEW why \in Reasons, reservation'[i] = ReleasedRow(r, why)
       PROVE  /\ reservation'[i].status = "released" /\ reservation'[i].mandate = r.mandate
              /\ reservation'[i].tx = NoTx /\ reservation'[i].reason = why
  BY <1>2, <1>10, ReservationFields
<1>11. CASE \E m \in Mandates : /\ mandate[m].status = "active" /\ Owner[m] = Buyer[i]
                                /\ reservation'[i] = ReservedRow(m)
  BY <1>4, <1>6, <1>7, <1>11, Zenon
<1>12. CASE \E t \in Txs : r.status = "reserved" /\ reservation'[i] = SubmittedRow(r, t)
  BY <1>1, <1>3, <1>4, <1>8, <1>12, Zenon
<1>13. CASE \E t \in Txs : r.status \in {"reserved", "submitted"} /\ reservation'[i] = ConsumedRow(r, t)
  BY <1>1, <1>3, <1>4, <1>9, <1>13
<1>14. CASE \E why \in Reasons :
              r.status \in {"reserved", "submitted"} /\ reservation'[i] = ReleasedRow(r, why)
  BY <1>1, <1>3, <1>4, <1>10, <1>14
<1> QED
  BY <1>5, <1>11, <1>12, <1>13, <1>14, Zenon DEF Moved, r

-----------------------------------------------------------------------------
(* Steps: what each transaction does to the rows and to the counters *)

LiveRows(m) == HeldBy(m, {"reserved", "submitted"})
DoneRows(m) == HeldBy(m, {"consumed"})

\* The counters of one mandate are sums of rows of intents.
LEMMA CountersAreSums ==
    ASSUME BudgetAccounts, NEW m \in Mandates
    PROVE  /\ LiveRows(m) \in SUBSET Intents /\ DoneRows(m) \in SUBSET Intents
           /\ mandate[m].reserved = Total[LiveRows(m)] /\ Total[LiveRows(m)] \in Nat
           /\ mandate[m].consumed = Total[DoneRows(m)] /\ Total[DoneRows(m)] \in Nat
<1>1. LiveRows(m) \in SUBSET Intents /\ DoneRows(m) \in SUBSET Intents
  BY Zenon DEF LiveRows, DoneRows, HeldBy
<1>2. mandate[m].reserved = Total[LiveRows(m)] /\ mandate[m].consumed = Total[DoneRows(m)]
  BY Zenon DEF BudgetAccounts, LiveRows, DoneRows
<1> QED
  BY <1>1, <1>2, TotalType, Zenon

\* A transaction that keeps a mandate's rows and counters keeps its accounts.
LEMMA SameRows ==
    ASSUME NEW m \in Mandates,
           \A j \in Intents :
              \/ reservation'[j] = reservation[j]
              \/ reservation[j].mandate # m /\ reservation'[j].mandate # m
    PROVE  LiveRows(m)' = LiveRows(m) /\ DoneRows(m)' = DoneRows(m)
BY Zenon DEF LiveRows, DoneRows, HeldBy

\* create_mandate and revoke_mandate change statuses only.
LEMMA StatusStep ==
    ASSUME LedgerTypeOK, BudgetAccounts, UNCHANGED reservation,
           \A k \in Mandates : /\ mandate'[k].reserved = mandate[k].reserved
                               /\ mandate'[k].consumed = mandate[k].consumed
    PROVE  BudgetAccounts'
<1> SUFFICES ASSUME NEW m \in Mandates
             PROVE  /\ mandate'[m].reserved = Total[LiveRows(m)']
                    /\ mandate'[m].consumed = Total[DoneRows(m)']
  BY Zenon DEF BudgetAccounts, LiveRows, DoneRows
<1>1. LiveRows(m)' = LiveRows(m) /\ DoneRows(m)' = DoneRows(m)
  BY Zenon DEF LiveRows, DoneRows, HeldBy
<1> QED
  BY <1>1, CountersAreSums, Zenon

\* create_mandate
LEMMA CreateStep ==
    ASSUME LedgerTypeOK, NEW m \in Mandates, create_mandate(m)
    PROVE  \A k \in Mandates :
              /\ mandate'[k].reserved = mandate[k].reserved
              /\ mandate'[k].consumed = mandate[k].consumed
              /\ mandate[k].status # "absent" => mandate'[k].status # "absent"
<1>1. SweepExpired(m) \in [Mandates -> MandateRow]
  BY StatusRows, Zenon DEF SweepExpired, LedgerTypeOK
<1>2. \A k \in Mandates :
         /\ SweepExpired(m)[k].reserved = mandate[k].reserved
         /\ SweepExpired(m)[k].consumed = mandate[k].consumed
         /\ mandate[k].status # "absent" => SweepExpired(m)[k].status # "absent"
  BY StatusRows, Zenon DEF SweepExpired, LedgerTypeOK
<1>3. mandate' = [SweepExpired(m) EXCEPT ![m] = WithStatus(@, "active")]
  BY Zenon DEF create_mandate
<1> HIDE DEF SweepExpired
<1>4. /\ WithStatus(SweepExpired(m)[m], "active").reserved = SweepExpired(m)[m].reserved
      /\ WithStatus(SweepExpired(m)[m], "active").consumed = SweepExpired(m)[m].consumed
      /\ WithStatus(SweepExpired(m)[m], "active").status = "active"
  BY <1>1, StatusRows, Zenon
<1> QED
  BY <1>1, <1>2, <1>3, <1>4, Zenon

\* revoke_mandate
LEMMA RevokeStep ==
    ASSUME LedgerTypeOK, NEW m \in Mandates, revoke_mandate(m)
    PROVE  \A k \in Mandates :
              /\ mandate'[k].reserved = mandate[k].reserved
              /\ mandate'[k].consumed = mandate[k].consumed
              /\ mandate[k].status # "absent" => mandate'[k].status # "absent"
<1>1. mandate' = [mandate EXCEPT ![m] = WithStatus(@, "revoked")]
  BY Zenon DEF revoke_mandate
<1>2. /\ WithStatus(mandate[m], "revoked").reserved = mandate[m].reserved
      /\ WithStatus(mandate[m], "revoked").consumed = mandate[m].consumed
      /\ WithStatus(mandate[m], "revoked").status = "revoked"
  BY StatusRows, Zenon DEF LedgerTypeOK
<1> QED
  BY <1>1, <1>2, Zenon DEF LedgerTypeOK

\* reserve_mandate opens one row and adds its amount to reserved_atomic.
LEMMA ReserveStep ==
    ASSUME LedgerTypeOK, ReservationsGrounded, BudgetAccounts, WithinBudget,
           NEW m \in Mandates, NEW i \in Intents, NEW now, NEW funds, NEW payeeTrading,
           reserve_mandate(m, i, now, funds, payeeTrading)
    PROVE  /\ \A j \in Intents : Moved(j)
           /\ \A k \in Mandates : mandate'[k].status = mandate[k].status
           /\ BudgetAccounts'
           /\ \A k \in Mandates : mandate[k].status # "active" => mandate'[k] = mandate[k]
           /\ WithinBudget'
<1>1. /\ mandate[m].status = "active" /\ Owner[m] = Buyer[i] /\ reservation[i].status = "none"
      /\ mandate[m].reserved + mandate[m].consumed + Amount[i] <= MaxCumulative[m]
  BY Zenon DEF reserve_mandate, CanReserve, MandateCovers
<1>2. reservation'[i] = ReservedRow(m) /\ \A j \in Intents \ {i} : reservation'[j] = reservation[j]
  BY Zenon DEF reserve_mandate, LedgerTypeOK
<1>3. mandate'[m] = Reserve(mandate[m], Amount[i]) /\ \A k \in Mandates \ {m} : mandate'[k] = mandate[k]
  BY Zenon DEF reserve_mandate, LedgerTypeOK
<1>4. /\ mandate'[m].status = mandate[m].status
      /\ mandate'[m].reserved = mandate[m].reserved + Amount[i]
      /\ mandate'[m].consumed = mandate[m].consumed
  <2>1. mandate[m] \in MandateRow /\ Amount[i] \in Int
    BY AmountType, Zenon DEF LedgerTypeOK
  <2>2. /\ Reserve(mandate[m], Amount[i]).status = mandate[m].status
        /\ Reserve(mandate[m], Amount[i]).reserved = mandate[m].reserved + Amount[i]
        /\ Reserve(mandate[m], Amount[i]).consumed = mandate[m].consumed
    BY <2>1, CounterRows, Zenon
  <2> QED
    BY <1>3, <2>2, Zenon
<1>5. reservation'[i].status = "reserved" /\ reservation'[i].mandate = m
  BY <1>2, ReservationFields
<1>6. reservation[i].mandate = NoMandate /\ NoMandate \notin Mandates
  BY <1>1, LedgerAssumption, Zenon DEF ReservationsGrounded
<1>7. BudgetAccounts'
  <2> SUFFICES ASSUME NEW k \in Mandates
               PROVE  /\ mandate'[k].reserved = Total[LiveRows(k)']
                      /\ mandate'[k].consumed = Total[DoneRows(k)']
    BY Zenon DEF BudgetAccounts, LiveRows, DoneRows
  <2>1. CASE k = m
    <3>1. LiveRows(m)' = LiveRows(m) \cup {i} /\ DoneRows(m)' = DoneRows(m) /\ i \in Intents \ LiveRows(m)
      BY <1>1, <1>2, <1>5, Zenon DEF LiveRows, DoneRows, HeldBy
    <3> QED
      BY <1>4, <2>1, <3>1, CountersAreSums, TotalAdd
  <2>2. CASE k # m
    <3>1. LiveRows(k)' = LiveRows(k) /\ DoneRows(k)' = DoneRows(k)
      BY <1>2, <1>5, <1>6, <2>2, SameRows, Zenon
    <3> QED
      BY <1>3, <2>2, <3>1, CountersAreSums, Zenon
  <2> QED
    BY <2>1, <2>2, Zenon
<1>8. WithinBudget'
  <2>1. mandate[m].reserved \in Nat /\ mandate[m].consumed \in Nat /\ Amount[i] \in Int
    BY CountersAreSums, AmountType, Zenon
  <2>2. MaxCumulative[m] \in Nat
    BY LedgerAssumption, Zenon
  <2> QED
    BY <1>1, <1>3, <1>4, <2>1, <2>2 DEF WithinBudget
<1> QED
  BY <1>1, <1>2, <1>3, <1>4, <1>7, <1>8, Zenon DEF Moved

\* submit_reservation binds a transaction to a live row, which stays live.
LEMMA SubmitStep ==
    ASSUME LedgerTypeOK, BudgetAccounts, NEW i \in Intents, NEW t \in Txs, submit_reservation(i, t)
    PROVE  (\A j \in Intents : Moved(j)) /\ BudgetAccounts'
<1>1. /\ mandate' = mandate
      /\ \A j \in Intents \ {i} : reservation'[j] = reservation[j]
      /\ \/ reservation'[i] = reservation[i]
         \/ reservation[i].status = "reserved" /\ reservation'[i] = SubmittedRow(reservation[i], t)
  BY Zenon DEF submit_reservation, LedgerTypeOK
<1>2. \/ reservation'[i] = reservation[i]
      \/ /\ reservation[i].status = "reserved" /\ reservation'[i].status = "submitted"
         /\ reservation'[i].mandate = reservation[i].mandate
  BY <1>1, ReservationFields DEF LedgerTypeOK
<1>3. \A m \in Mandates : LiveRows(m)' = LiveRows(m) /\ DoneRows(m)' = DoneRows(m)
  BY <1>1, <1>2, Zenon DEF LiveRows, DoneRows, HeldBy
<1> QED
  BY <1>1, <1>3, Zenon DEF Moved, BudgetAccounts, LiveRows, DoneRows

\* consume_reservation moves the row's amount from one counter to the other.
LEMMA ConsumeStep ==
    ASSUME LedgerTypeOK, ReservationsGrounded, BudgetAccounts, WithinBudget,
           NEW i \in Intents, NEW t \in Txs, consume_reservation(i, t)
    PROVE  /\ \A j \in Intents : Moved(j)
           /\ \A k \in Mandates : mandate'[k].status = mandate[k].status
           /\ BudgetAccounts'
           /\ \A k \in Mandates : mandate'[k].reserved <= mandate[k].reserved
           /\ WithinBudget'
<1>1. reservation[i].status \in {"reserved", "submitted"}
  BY Zenon DEF consume_reservation, CanConsume
<1>2. PICK m \in Mandates : reservation[i].mandate = m
  BY <1>1, ReservationRowTypes, Zenon DEF ReservationsGrounded, LedgerTypeOK
<1>3. /\ reservation'[i] = ConsumedRow(reservation[i], t)
      /\ \A j \in Intents \ {i} : reservation'[j] = reservation[j]
  BY Zenon DEF consume_reservation, LedgerTypeOK
<1>4. reservation'[i].status = "consumed" /\ reservation'[i].mandate = m
  <2>1. reservation[i] \in ReservationRow
    BY Zenon DEF LedgerTypeOK
  <2> QED
    BY <1>2, <1>3, <2>1, FinalFields
<1>5. mandate'[m] = Consume(mandate[m], Amount[i]) /\ \A k \in Mandates \ {m} : mandate'[k] = mandate[k]
  BY <1>2, Zenon DEF consume_reservation, LedgerTypeOK
<1>6. \A j \in Intents : Moved(j)
  BY <1>1, <1>3, Zenon DEF Moved
<1>7. reservation[i].mandate = m
  BY <1>2, Zenon
<1>8. /\ mandate'[m].status = mandate[m].status
      /\ mandate'[m].reserved = mandate[m].reserved - Amount[i]
      /\ mandate'[m].consumed = mandate[m].consumed + Amount[i]
  <2>1. mandate[m] \in MandateRow /\ Amount[i] \in Int
    BY <1>2, AmountType, Zenon DEF LedgerTypeOK
  <2> QED
    BY <1>5, <2>1, CounterRows
<1>9. BudgetAccounts'
  <2> SUFFICES ASSUME NEW k \in Mandates
               PROVE  /\ mandate'[k].reserved = Total[LiveRows(k)']
                      /\ mandate'[k].consumed = Total[DoneRows(k)']
    BY Zenon DEF BudgetAccounts, LiveRows, DoneRows
  <2>1. CASE k = m
    <3>1. /\ LiveRows(m)' = LiveRows(m) \ {i} /\ {i} \in SUBSET LiveRows(m)
          /\ DoneRows(m)' = DoneRows(m) \cup {i} /\ i \in Intents \ DoneRows(m)
      BY <1>1, <1>3, <1>4, <1>7, Zenon DEF LiveRows, DoneRows, HeldBy
    <3>2. Total[{i}] = Amount[i]
      BY TotalAssumption, Zenon
    <3>3. LiveRows(m) \in SUBSET Intents /\ DoneRows(m) \in SUBSET Intents
      BY Zenon DEF LiveRows, DoneRows, HeldBy
    <3>4. Total[LiveRows(m) \ {i}] = Total[LiveRows(m)] - Total[{i}]
      BY <3>1, <3>3, TotalRemove, Zenon
    <3>5. Total[DoneRows(m) \cup {i}] = Total[DoneRows(m)] + Amount[i]
      BY <3>1, <3>3, TotalAdd, Zenon
    <3> QED
      BY <1>8, <2>1, <3>1, <3>2, <3>4, <3>5, CountersAreSums, Zenon
  <2>2. CASE k # m
    <3>1. LiveRows(k)' = LiveRows(k) /\ DoneRows(k)' = DoneRows(k)
      BY <1>3, <1>4, <1>7, <2>2, SameRows, Zenon
    <3> QED
      BY <1>5, <2>2, <3>1, CountersAreSums, Zenon
  <2> QED
    BY <2>1, <2>2, Zenon
<1>10. WithinBudget'
  <2>1. mandate[m].reserved \in Nat /\ mandate[m].consumed \in Nat /\ Amount[i] \in Int
    BY <1>2, CountersAreSums, AmountType, Zenon
  <2>2. mandate'[m].reserved + mandate'[m].consumed = mandate[m].reserved + mandate[m].consumed
    BY <1>8, <2>1
  <2> QED
    BY <1>2, <1>5, <2>2, Zenon DEF WithinBudget
<1>11. \A k \in Mandates : mandate'[k].reserved <= mandate[k].reserved
  <2>1. /\ \A k \in Mandates : mandate[k].reserved \in Nat
        /\ Amount[i] \in Int /\ Amount[i] > 0
    BY CountersAreSums, AmountType, Zenon
  <2> QED
    BY <1>2, <1>5, <1>8, <2>1
<1> QED
  BY <1>2, <1>5, <1>6, <1>8, <1>9, <1>10, <1>11, Zenon

\* A call that writes neither table keeps what is said of them.
LEMMA SameLedger ==
    ASSUME mandate' = mandate, reservation' = reservation
    PROVE  /\ ReservationsGrounded => ReservationsGrounded'
           /\ BudgetAccounts => BudgetAccounts'
           /\ WithinBudget => WithinBudget'
<1>1. ReservationsGrounded => ReservationsGrounded'
  BY Zenon DEF ReservationsGrounded
<1>2. \A m \in Mandates : \A S : HeldBy(m, S)' = HeldBy(m, S)
  BY Zenon DEF HeldBy
<1>3. BudgetAccounts => BudgetAccounts'
  BY <1>2, Zenon DEF BudgetAccounts
<1>4. WithinBudget => WithinBudget'
  BY Zenon DEF WithinBudget
<1> QED
  BY <1>1, <1>3, <1>4, Zenon

\* release_reservation returns the row's amount to the budget, once.
LEMMA ReleaseStep ==
    ASSUME LedgerTypeOK, ReservationsGrounded, BudgetAccounts, WithinBudget,
           NEW i \in Intents, NEW why \in Reasons, release_reservation(i, why)
    PROVE  /\ \A j \in Intents : Moved(j)
           /\ \A k \in Mandates : mandate'[k].status = mandate[k].status
           /\ BudgetAccounts'
           /\ \A k \in Mandates : mandate'[k].reserved <= mandate[k].reserved
           /\ WithinBudget'
<1>1. CASE reservation[i].status # "reserved"
  <2>1. mandate' = mandate /\ reservation' = reservation
    BY <1>1, Zenon DEF release_reservation, ledgerVars
  <2>2. \A k \in Mandates : mandate[k].reserved \in Nat
    BY CountersAreSums, Zenon
  <2> QED
    BY <2>1, <2>2, SameLedger DEF Moved
<1>2. CASE reservation[i].status = "reserved"
  <2>1. PICK m \in Mandates : reservation[i].mandate = m
    BY <1>2, ReservationRowTypes, Zenon DEF ReservationsGrounded, LedgerTypeOK
  <2>2. /\ reservation' = [reservation EXCEPT ![i] = ReleasedRow(@, why)]
        /\ mandate' = [mandate EXCEPT ![m] = Unreserve(@, Amount[i])]
    BY <1>2, <2>1, Zenon DEF release_reservation
  <2>3. /\ reservation'[i] = ReleasedRow(reservation[i], why)
        /\ \A j \in Intents \ {i} : reservation'[j] = reservation[j]
    BY <2>2, Zenon DEF LedgerTypeOK
  <2>4. reservation'[i].status = "released" /\ reservation'[i].mandate = m
    <3>1. reservation[i] \in ReservationRow
      BY Zenon DEF LedgerTypeOK
    <3> QED
      BY <2>1, <2>3, <3>1, FinalFields
  <2>5. /\ mandate'[m] = Unreserve(mandate[m], Amount[i])
        /\ \A k \in Mandates \ {m} : mandate'[k] = mandate[k]
    BY <2>1, <2>2, Zenon DEF LedgerTypeOK
  <2>6. \A j \in Intents : Moved(j)
    BY <1>2, <2>3, Zenon DEF Moved
  <2>7. reservation[i].mandate = m
    BY <2>1, Zenon
  <2>8. /\ mandate'[m].status = mandate[m].status
        /\ mandate'[m].reserved = mandate[m].reserved - Amount[i]
        /\ mandate'[m].consumed = mandate[m].consumed
    <3>1. mandate[m] \in MandateRow /\ Amount[i] \in Int
      BY <2>1, AmountType, Zenon DEF LedgerTypeOK
    <3>2. PICK row \in MandateRow, a \in Int : row = mandate[m] /\ a = Amount[i]
      BY <3>1, Zenon
    <3>3. mandate'[m] = Unreserve(row, a)
      BY <2>5, <3>2, Zenon
    <3>4. /\ Unreserve(row, a).status = row.status /\ Unreserve(row, a).consumed = row.consumed
          /\ Unreserve(row, a).reserved = row.reserved - a
      BY CounterRows, Zenon
    <3> QED
      BY <3>2, <3>3, <3>4, Zenon
  <2>9. BudgetAccounts'
    <3> SUFFICES ASSUME NEW k \in Mandates
                 PROVE  /\ mandate'[k].reserved = Total[LiveRows(k)']
                        /\ mandate'[k].consumed = Total[DoneRows(k)']
      BY Zenon DEF BudgetAccounts, LiveRows, DoneRows
    <3>1. CASE k = m
      <4>1. /\ LiveRows(m)' = LiveRows(m) \ {i} /\ {i} \in SUBSET LiveRows(m)
            /\ DoneRows(m)' = DoneRows(m)
        BY <1>2, <2>3, <2>4, <2>7, Zenon DEF LiveRows, DoneRows, HeldBy
      <4>2. Total[{i}] = Amount[i]
        BY TotalAssumption, Zenon
      <4>3. LiveRows(m) \in SUBSET Intents
        BY CountersAreSums, Zenon
      <4>4. Total[LiveRows(m) \ {i}] = Total[LiveRows(m)] - Total[{i}]
        BY <4>1, <4>3, TotalRemove, Zenon
      <4>5. Total[LiveRows(m)'] = Total[LiveRows(m)] - Amount[i]
        BY <4>1, <4>2, <4>4, Zenon
      <4> QED
        BY <2>1, <2>8, <3>1, <4>1, <4>5, CountersAreSums, Zenon
    <3>2. CASE k # m
      <4>1. LiveRows(k)' = LiveRows(k) /\ DoneRows(k)' = DoneRows(k)
        BY <2>3, <2>4, <2>7, <3>2, SameRows, Zenon
      <4> QED
        BY <2>5, <3>2, <4>1, CountersAreSums, Zenon
    <3> QED
      BY <3>1, <3>2, Zenon
  <2>10. WithinBudget'
    <3>1. /\ mandate[m].reserved \in Nat /\ mandate[m].consumed \in Nat
          /\ Amount[i] \in Int /\ Amount[i] > 0 /\ MaxCumulative[m] \in Nat
      BY <2>1, CountersAreSums, AmountType, LedgerAssumption, Zenon
    <3> QED
      BY <2>1, <2>5, <2>8, <3>1 DEF WithinBudget
  <2>11. \A k \in Mandates : mandate'[k].reserved <= mandate[k].reserved
    <3>1. /\ \A k \in Mandates : mandate[k].reserved \in Nat
          /\ Amount[i] \in Int /\ Amount[i] > 0
      BY CountersAreSums, AmountType, Zenon
    <3> QED
      BY <2>1, <2>5, <2>8, <3>1
  <2> QED
    BY <2>1, <2>5, <2>6, <2>8, <2>9, <2>10, <2>11, Zenon
<1> QED
  BY <1>1, <1>2, Zenon

\* reconcile_finalized_reservations moves the amounts of the rows it consumes
\* and returns those of the rows it releases, for every mandate at once.
LEMMA ReconcileStep ==
    ASSUME LedgerTypeOK, ReservationsGrounded, BudgetAccounts, WithinBudget,
           NEW paid \in SUBSET Intents, NEW reverted \in SUBSET (Intents \ paid),
           reconcile_finalized_reservations(paid, reverted)
    PROVE  /\ \A j \in Intents : Moved(j)
           /\ \A k \in Mandates : mandate'[k].status = mandate[k].status
           /\ BudgetAccounts'
           /\ \A k \in Mandates : mandate'[k].reserved <= mandate[k].reserved
           /\ WithinBudget'
<1> DEFINE submitted == {i \in Intents : reservation[i].status = "submitted"}
           C(m) == {i \in submitted \cap paid : reservation[i].mandate = m}
           R(m) == {i \in submitted \cap reverted : reservation[i].mandate = m}
<1>1. \A i \in Intents :
         /\ i \in submitted \cap paid => reservation'[i] = ConsumedRow(reservation[i], reservation[i].tx)
         /\ i \in submitted \cap reverted =>
               reservation'[i] = ReleasedRow(reservation[i], "chain_transaction_reverted")
         /\ (i \notin submitted \cap paid /\ i \notin submitted \cap reverted) =>
               reservation'[i] = reservation[i]
  BY Zenon DEF reconcile_finalized_reservations
<1>2. \A i \in submitted : reservation[i].tx \in Txs
  BY ReservationRowTypes, Zenon DEF ReservationsGrounded, LedgerTypeOK
<1>3. "chain_transaction_reverted" \in Reasons
  BY LedgerAssumption, Zenon
<1>4. \A i \in Intents :
         /\ i \in submitted \cap paid =>
               reservation'[i].status = "consumed" /\ reservation'[i].mandate = reservation[i].mandate
         /\ i \in submitted \cap reverted =>
               reservation'[i].status = "released" /\ reservation'[i].mandate = reservation[i].mandate
  <2> SUFFICES ASSUME NEW i \in Intents
               PROVE  /\ i \in submitted \cap paid =>
                            /\ reservation'[i].status = "consumed"
                            /\ reservation'[i].mandate = reservation[i].mandate
                      /\ i \in submitted \cap reverted =>
                            /\ reservation'[i].status = "released"
                            /\ reservation'[i].mandate = reservation[i].mandate
    BY Zenon
  <2>1. reservation[i] \in ReservationRow
    BY Zenon DEF LedgerTypeOK
  <2>2. ASSUME i \in submitted \cap paid
        PROVE  reservation'[i].status = "consumed" /\ reservation'[i].mandate = reservation[i].mandate
    <3>1. reservation'[i] = ConsumedRow(reservation[i], reservation[i].tx) /\ reservation[i].tx \in Txs
      BY <1>1, <1>2, <2>2, Zenon
    <3> HIDE DEF submitted
    <3> QED
      BY <2>1, <3>1, FinalFields
  <2>3. ASSUME i \in submitted \cap reverted
        PROVE  reservation'[i].status = "released" /\ reservation'[i].mandate = reservation[i].mandate
    <3>1. reservation'[i] = ReleasedRow(reservation[i], "chain_transaction_reverted")
      BY <1>1, <2>3, Zenon
    <3> HIDE DEF submitted
    <3> QED
      BY <1>3, <2>1, <3>1, FinalFields
  <2> QED
    BY <2>2, <2>3, Zenon
<1>5. \A j \in Intents : Moved(j)
  <2> SUFFICES ASSUME NEW j \in Intents PROVE Moved(j)
    BY Zenon
  <2>1. CASE j \in submitted \cap paid
    BY <1>1, <1>2, <2>1, Zenon DEF Moved
  <2>2. CASE j \in submitted \cap reverted
    BY <1>1, <1>3, <2>2, Zenon DEF Moved
  <2>3. CASE j \notin submitted \cap paid /\ j \notin submitted \cap reverted
    BY <1>1, <2>3, Zenon DEF Moved
  <2> QED
    BY <2>1, <2>2, <2>3, Zenon
<1>6. ASSUME NEW m \in Mandates
      PROVE  /\ mandate'[m].status = mandate[m].status
             /\ mandate'[m].reserved = Total[LiveRows(m)']
             /\ mandate'[m].consumed = Total[DoneRows(m)']
             /\ mandate'[m].reserved + mandate'[m].consumed <= MaxCumulative[m]
             /\ mandate'[m].reserved <= mandate[m].reserved
  <2>1. mandate'[m] = Unreserve(Consume(mandate[m], Total[C(m)]), Total[R(m)])
    BY Zenon DEF reconcile_finalized_reservations, Spent
  <2>2. PICK c \in SUBSET Intents, r \in SUBSET Intents : c = C(m) /\ r = R(m)
    BY Zenon
  <2>3. /\ c \in SUBSET LiveRows(m) /\ r \in SUBSET (LiveRows(m) \ c) /\ DoneRows(m) \cap c = {}
        /\ LiveRows(m) \in SUBSET Intents /\ DoneRows(m) \in SUBSET Intents
    BY <2>2, Zenon DEF LiveRows, DoneRows, HeldBy
  <2>4. LiveRows(m)' = (LiveRows(m) \ c) \ r
    BY <1>1, <1>4, <2>2, Zenon DEF LiveRows, HeldBy
  <2>5. DoneRows(m)' = DoneRows(m) \cup c
    BY <1>1, <1>4, <2>2, Zenon DEF DoneRows, HeldBy
  <2>6. mandate'[m] = Unreserve(Consume(mandate[m], Total[c]), Total[r])
    BY <2>1, <2>2, Zenon
  <2> HIDE DEF C, R, submitted
  <2>7. Total[c] \in Nat /\ Total[r] \in Nat
    BY TotalType, Zenon
  <2>8. /\ mandate'[m].status = mandate[m].status
        /\ mandate'[m].reserved = mandate[m].reserved - Total[c] - Total[r]
        /\ mandate'[m].consumed = mandate[m].consumed + Total[c]
    <3>1. mandate[m] \in MandateRow /\ Total[c] \in Int
      BY <2>7 DEF LedgerTypeOK
    <3>2. /\ Consume(mandate[m], Total[c]) \in MandateRow
          /\ Consume(mandate[m], Total[c]).status = mandate[m].status
          /\ Consume(mandate[m], Total[c]).reserved = mandate[m].reserved - Total[c]
          /\ Consume(mandate[m], Total[c]).consumed = mandate[m].consumed + Total[c]
      BY <3>1, CounterRows
    <3> DEFINE k == Consume(mandate[m], Total[c])
    <3>3. /\ Unreserve(k, Total[r]).status = k.status
          /\ Unreserve(k, Total[r]).reserved = k.reserved - Total[r]
          /\ Unreserve(k, Total[r]).consumed = k.consumed
      <4> HIDE DEF k
      <4>1. k \in MandateRow /\ Total[r] \in Int
        <5>1. k \in MandateRow
          BY <3>2, Zenon DEF k
        <5> QED
          BY <2>7, <5>1
      <4> QED
        BY <4>1, CounterRows, Zenon
    <3> QED
      BY <2>6, <3>2, <3>3, Zenon
  <2>9. Total[LiveRows(m) \ c] = Total[LiveRows(m)] - Total[c]
    BY <2>3, TotalRemove, Zenon
  <2>10. Total[(LiveRows(m) \ c) \ r] = Total[LiveRows(m) \ c] - Total[r]
    <3>1. LiveRows(m) \ c \in SUBSET Intents
      BY <2>3, Zenon
    <3> QED
      BY <2>3, <3>1, TotalRemove, Zenon
  <2>11. Total[DoneRows(m) \cup c] = Total[DoneRows(m)] + Total[c]
    BY <2>3, TotalAssumption, Zenon
  <2>12. /\ mandate[m].reserved = Total[LiveRows(m)] /\ Total[LiveRows(m)] \in Nat
         /\ mandate[m].consumed = Total[DoneRows(m)] /\ Total[DoneRows(m)] \in Nat
    BY CountersAreSums, Zenon
  <2>13. mandate[m].reserved + mandate[m].consumed <= MaxCumulative[m] /\ MaxCumulative[m] \in Nat
    BY LedgerAssumption, Zenon DEF WithinBudget
  <2>14. mandate'[m].reserved + mandate'[m].consumed <= MaxCumulative[m]
    BY <2>7, <2>8, <2>12, <2>13
  <2>15. mandate'[m].reserved <= mandate[m].reserved
    BY <2>7, <2>8, <2>12
  <2> QED
    BY <2>4, <2>5, <2>7, <2>8, <2>9, <2>10, <2>11, <2>12, <2>14, <2>15, Zenon
<1> QED
  BY <1>5, <1>6, Zenon DEF BudgetAccounts, WithinBudget, LiveRows, DoneRows

-----------------------------------------------------------------------------
(* Theorems *)

\* A ledger without reservations owes nothing.
LEMMA EmptyLedger ==
    ASSUME LedgerTypeOK, reservation = [i \in Intents |-> NoReservation],
           \A m \in Mandates : mandate[m].reserved = 0 /\ mandate[m].consumed = 0
    PROVE  LedgerInv
<1>1. /\ NoReservation.status = "none" /\ NoReservation.mandate = NoMandate
      /\ NoReservation.tx = NoTx /\ NoReservation.reason = NoReason
  BY Zenon DEF NoReservation
<1>2. ReservationsGrounded
  BY <1>1, Zenon DEF ReservationsGrounded
<1>3. \A m \in Mandates : HeldBy(m, {"reserved", "submitted"}) = {} /\ HeldBy(m, {"consumed"}) = {}
  BY <1>1, Zenon DEF HeldBy
<1>5. BudgetAccounts
  BY <1>3, TotalEmpty, Zenon DEF BudgetAccounts
<1>6. WithinBudget
  BY LedgerAssumption DEF WithinBudget
<1> QED
  BY <1>2, <1>5, <1>6, Zenon DEF LedgerInv

LEMMA LedgerInvInit == ASSUME LedgerInit, LedgerTypeOK PROVE LedgerInv
BY EmptyLedger, Zenon DEF LedgerInit, NoMandateRow

\* Every transaction keeps the references, the accounts and the limits.
LEMMA LedgerInvCall ==
    ASSUME LedgerInv, LedgerTypeOK', LedgerCall \/ UNCHANGED ledgerVars
    PROVE  LedgerInv'
<1> USE DEF LedgerInv
<1>1. CASE UNCHANGED ledgerVars
  BY <1>1, SameLedger, Zenon DEF ledgerVars
<1>3. ASSUME NEW m \in Mandates, create_mandate(m) \/ revoke_mandate(m) PROVE LedgerInv'
  <2>1. \A k \in Mandates :
           /\ mandate'[k].reserved = mandate[k].reserved
           /\ mandate'[k].consumed = mandate[k].consumed
           /\ mandate[k].status # "absent" => mandate'[k].status # "absent"
    BY <1>3, CreateStep, RevokeStep, Zenon
  <2>2. UNCHANGED reservation
    BY <1>3, Zenon DEF create_mandate, revoke_mandate
  <2>3. \A i \in Intents : Moved(i)
    BY <2>2, Zenon DEF Moved
  <2>4. ReservationsGrounded'
    BY <2>1, <2>3, GroundedMove, Zenon
  <2>5. BudgetAccounts'
    BY <2>1, <2>2, StatusStep, Zenon
  <2> QED
    BY <2>1, <2>4, <2>5, Zenon DEF WithinBudget
<1>4. ASSUME NEW m \in Mandates, NEW i \in Intents, NEW now, NEW funds, NEW payeeTrading,
             reserve_mandate(m, i, now, funds, payeeTrading)
      PROVE  LedgerInv'
  <2>1. /\ \A j \in Intents : Moved(j)
        /\ \A k \in Mandates : mandate'[k].status = mandate[k].status
        /\ BudgetAccounts' /\ WithinBudget'
    BY <1>4, ReserveStep, Zenon
  <2> QED
    BY <2>1, GroundedMove, Zenon
<1>5. ASSUME NEW i \in Intents, NEW t \in Txs, submit_reservation(i, t) PROVE LedgerInv'
  <2>1. UNCHANGED mandate
    BY <1>5, Zenon DEF submit_reservation
  <2> QED
    BY <1>5, <2>1, SubmitStep, GroundedMove, Zenon DEF WithinBudget
<1>6. ASSUME NEW i \in Intents, NEW t \in Txs, consume_reservation(i, t) PROVE LedgerInv'
  BY <1>6, ConsumeStep, GroundedMove, Zenon
<1>7. ASSUME NEW i \in Intents, NEW why \in Reasons, release_reservation(i, why) PROVE LedgerInv'
  BY <1>7, ReleaseStep, GroundedMove, Zenon
<1>8. ASSUME NEW paid \in SUBSET Intents, NEW reverted \in SUBSET (Intents \ paid),
             reconcile_finalized_reservations(paid, reverted)
      PROVE  LedgerInv'
  BY <1>8, ReconcileStep, GroundedMove, Zenon
<1> QED
  BY <1>1, <1>3, <1>4, <1>5, <1>6, <1>7, <1>8, Zenon DEF LedgerCall

\* So does the general client.
LEMMA LedgerInvNext ==
    ASSUME LedgerInv, LedgerTypeOK', [LedgerNext]_ledgerAll
    PROVE  LedgerInv'
BY GeneralClient, LedgerInvCall, Zenon DEF ledgerVars

\* For every set of deals, mandates and limits: reservations stay grounded.
THEOREM LedgerReferences == LedgerSpec => []ReservationsGrounded
<1>1. LedgerSpec => []LedgerTypeOK
  BY LedgerTypeCorrect, Zenon
<1>2. LedgerInit /\ LedgerTypeOK => LedgerInv
  BY LedgerInvInit, Zenon
<1>3. LedgerInv /\ LedgerTypeOK' /\ [LedgerNext]_ledgerAll => LedgerInv'
  BY LedgerInvNext, Zenon
<1>4. LedgerInv => ReservationsGrounded
  BY Zenon DEF LedgerInv
<1> QED
  BY <1>1, <1>2, <1>3, <1>4, PTL DEF LedgerSpec, ledgerAll

\* For every set of deals, mandates and limits: the counters a mandate keeps
\* are the sums of its rows.
THEOREM LedgerAccounts == LedgerSpec => []BudgetAccounts
<1>1. LedgerSpec => []LedgerTypeOK
  BY LedgerTypeCorrect, Zenon
<1>2. LedgerInit /\ LedgerTypeOK => LedgerInv
  BY LedgerInvInit, Zenon
<1>3. LedgerInv /\ LedgerTypeOK' /\ [LedgerNext]_ledgerAll => LedgerInv'
  BY LedgerInvNext, Zenon
<1>4. LedgerInv => BudgetAccounts
  BY Zenon DEF LedgerInv
<1> QED
  BY <1>1, <1>2, <1>3, <1>4, PTL DEF LedgerSpec, ledgerAll

\* For every set of deals, mandates and limits: no sequence of calls allocates
\* more than a mandate's max_cumulative_atomic.
THEOREM LedgerWithinBudget == LedgerSpec => []WithinBudget
<1>1. LedgerSpec => []LedgerTypeOK
  BY LedgerTypeCorrect, Zenon
<1>2. LedgerInit /\ LedgerTypeOK => LedgerInv
  BY LedgerInvInit, Zenon
<1>3. LedgerInv /\ LedgerTypeOK' /\ [LedgerNext]_ledgerAll => LedgerInv'
  BY LedgerInvNext, Zenon
<1>4. LedgerInv => WithinBudget
  BY Zenon DEF LedgerInv
<1> QED
  BY <1>1, <1>2, <1>3, <1>4, PTL DEF LedgerSpec, ledgerAll

\* What a step may not do to final rows and to revoked mandates.
Frozen ==
    /\ \A i \in Intents :
          reservation[i].status \in {"consumed", "released"} => reservation'[i] = reservation[i]
    /\ \A m \in Mandates :
          mandate[m].status = "revoked" =>
              /\ mandate'[m].status = "revoked"
              /\ mandate'[m].reserved <= mandate[m].reserved

\* A row that only moves as Moved allows never leaves a final status.
LEMMA FrozenMove ==
    ASSUME NEW i \in Intents, Moved(i), reservation[i].status \in {"consumed", "released"}
    PROVE  reservation'[i] = reservation[i]
BY Zenon DEF Moved

\* Every transaction leaves final rows alone and lends nothing on a revoked mandate.
LEMMA FrozenStep == ASSUME LedgerInv, LedgerNext PROVE Frozen
<1> USE DEF LedgerInv
<1>0. \A k \in Mandates : mandate[k].reserved \in Nat
  BY CountersAreSums, Zenon
<1>1. CASE UNCHANGED ledgerVars
  <2>1. mandate' = mandate /\ reservation' = reservation
    BY <1>1, Zenon DEF ledgerVars
  <2> QED
    BY <1>0, <2>1 DEF Frozen
<1>2. ASSUME NEW m \in Mandates, create_mandate(m) PROVE Frozen
  <2>1. \A k \in Mandates : mandate'[k].reserved = mandate[k].reserved
    BY <1>2, CreateStep, Zenon
  <2>2. mandate[m].status = "absent" /\ UNCHANGED reservation
    BY <1>2, Zenon DEF create_mandate
  <2>3. \A k \in Mandates \ {m} : mandate'[k] = SweepExpired(m)[k]
    BY <1>2, Zenon DEF create_mandate, SweepExpired
  <2>4. \A k \in Mandates \ {m} : mandate[k].status = "revoked" => mandate'[k] = mandate[k]
    BY <2>3, Zenon DEF SweepExpired
  <2> QED
    <3>1. \A i \in Intents : reservation'[i] = reservation[i]
      BY <2>2, Zenon
    <3>2. \A k \in Mandates : mandate[k].status = "revoked" =>
             mandate'[k].status = "revoked" /\ mandate'[k].reserved <= mandate[k].reserved
      BY <1>0, <2>1, <2>2, <2>4
    <3> QED
      BY <3>1, <3>2, Zenon DEF Frozen
<1>3. ASSUME NEW m \in Mandates, revoke_mandate(m) PROVE Frozen
  <2>1. \A k \in Mandates : mandate'[k].reserved = mandate[k].reserved
    BY <1>3, RevokeStep, Zenon
  <2>2. /\ \A k \in Mandates \ {m} : mandate'[k] = mandate[k]
        /\ mandate'[m] = WithStatus(mandate[m], "revoked")
        /\ UNCHANGED reservation
    BY <1>3, Zenon DEF revoke_mandate, LedgerTypeOK
  <2>3. mandate'[m].status = "revoked"
    BY <2>2, StatusRows DEF LedgerTypeOK
  <2> QED
    <3>1. \A i \in Intents : reservation'[i] = reservation[i]
      BY <2>2, Zenon
    <3>2. \A k \in Mandates : mandate[k].status = "revoked" =>
             mandate'[k].status = "revoked" /\ mandate'[k].reserved <= mandate[k].reserved
      BY <1>0, <2>1, <2>2, <2>3
    <3> QED
      BY <3>1, <3>2, Zenon DEF Frozen
<1>4. ASSUME NEW m \in Mandates, NEW i \in Intents, NEW now, NEW funds, NEW payeeTrading,
             reserve_mandate(m, i, now, funds, payeeTrading)
      PROVE  Frozen
  <2>1. /\ \A j \in Intents : Moved(j)
        /\ \A k \in Mandates : mandate[k].status # "active" => mandate'[k] = mandate[k]
    BY <1>4, ReserveStep, Zenon
  <2> QED
    BY <1>0, <2>1, FrozenMove DEF Frozen
<1>5. ASSUME NEW i \in Intents, NEW t \in Txs, submit_reservation(i, t) PROVE Frozen
  <2>1. (\A j \in Intents : Moved(j)) /\ UNCHANGED mandate
    BY <1>5, SubmitStep, Zenon DEF submit_reservation
  <2> QED
    BY <1>0, <2>1, FrozenMove DEF Frozen
<1>6. ASSUME NEW i \in Intents, NEW t \in Txs, consume_reservation(i, t) PROVE Frozen
  BY <1>6, ConsumeStep, FrozenMove, Zenon DEF Frozen
<1>7. ASSUME NEW i \in Intents, NEW why \in Reasons, release_reservation(i, why) PROVE Frozen
  BY <1>7, ReleaseStep, FrozenMove, Zenon DEF Frozen
<1>8. ASSUME NEW paid \in SUBSET Intents, NEW reverted \in SUBSET (Intents \ paid),
             reconcile_finalized_reservations(paid, reverted)
      PROVE  Frozen
  BY <1>8, ReconcileStep, FrozenMove, Zenon DEF Frozen
<1> QED
  BY <1>1, <1>2, <1>3, <1>4, <1>5, <1>6, <1>7, <1>8, Zenon DEF LedgerNext

\* For every set of deals, mandates and limits: a consumed or released
\* reservation never changes again, and a revoked mandate lends nothing more.
THEOREM LedgerFinality == LedgerSpec => FinalReservationsFrozen
<1>1. LedgerSpec => []LedgerTypeOK
  BY LedgerTypeCorrect, Zenon
<1>2. LedgerInit /\ LedgerTypeOK => LedgerInv
  BY LedgerInvInit, Zenon
<1>3. LedgerInv /\ LedgerTypeOK' /\ [LedgerNext]_ledgerAll => LedgerInv'
  BY LedgerInvNext, Zenon
<1>4. LedgerInv /\ [LedgerNext]_ledgerAll => [Frozen]_ledgerVars
  <2> SUFFICES ASSUME LedgerInv, [LedgerNext]_ledgerAll PROVE Frozen \/ UNCHANGED ledgerVars
    BY Zenon
  <2>1. CASE LedgerNext
    BY <2>1, FrozenStep, Zenon
  <2>2. CASE UNCHANGED ledgerAll
    BY <2>2, Zenon DEF ledgerAll, ledgerVars
  <2> QED
    BY <2>1, <2>2, Zenon
<1>5. LedgerSpec => [][Frozen]_ledgerVars
  BY <1>1, <1>2, <1>3, <1>4, PTL DEF LedgerSpec, ledgerAll
<1> QED
  BY <1>5, Zenon DEF FinalReservationsFrozen, Frozen

-----------------------------------------------------------------------------
(* The Arena's rows: types *)

\* The parties of a deal are participants, and its terms have their types.
LEMMA Terms ==
    ASSUME NEW i \in Intents
    PROVE  /\ Buyer[i] \in Participants /\ Seller[i] \in Participants /\ Buyer[i] # Seller[i]
           /\ Parties(i) \in SUBSET Participants
           /\ Good[i] \in Goods
           /\ Amount[i] \in Nat /\ Quantity[i] \in Nat
           /\ RoundOf[i] \in 1..NRounds /\ NRounds \in Nat
BY TermsAssumption, TwoPartiesAssumption DEF Parties

\* The commit's four updates of cash and holdings keep their types.
LEMMA MoveAssetsType ==
    ASSUME NEW i \in Intents, MoveAssets(i),
           cash \in [Participants -> Int], holding \in [Participants -> [Goods -> Int]]
    PROVE  /\ cash' \in [Participants -> Int]
           /\ holding' \in [Participants -> [Goods -> Int]]
<1>1. /\ Buyer[i] \in Participants /\ Seller[i] \in Participants /\ Good[i] \in Goods
      /\ Amount[i] \in Int /\ Quantity[i] \in Int
  BY Terms
<1>2. cash' = [cash EXCEPT ![Buyer[i]] = @ - Amount[i], ![Seller[i]] = @ + Amount[i]]
  BY Zenon DEF MoveAssets
<1>3. holding' = [holding EXCEPT ![Buyer[i]][Good[i]] = @ + Quantity[i],
                                 ![Seller[i]][Good[i]] = @ - Quantity[i]]
  BY Zenon DEF MoveAssets
<1> QED
  BY <1>1, <1>2, <1>3

\* Every transaction keeps the types of the rows.
LEMMA ArenaTypeStep == ASSUME ArenaTypeOK, [ArenaNext]_arenaVars PROVE ArenaTypeOK'
<1>1. CASE UNCHANGED arenaVars
  BY <1>1, Zenon DEF ArenaTypeOK, arenaVars, marketVars, dealVars, assetVars, intentVars
<1>2. CASE materialize_agent_market_engagements
  BY <1>2, Zenon DEF ArenaTypeOK, materialize_agent_market_engagements, marketVars, assetVars,
       intentVars, PairingStatus
<1>3. CASE complete_hosted_run
  BY <1>3, Zenon DEF ArenaTypeOK, complete_hosted_run, dealVars, assetVars, intentVars
<1>4. CASE advance_round_or_game
  BY <1>4, TermsAssumption DEF ArenaTypeOK, advance_round_or_game, GameRunning, dealVars, assetVars, intentVars
<1>5. ASSUME NEW i \in Intents, Engage(i) PROVE ArenaTypeOK'
  BY <1>5, Zenon DEF ArenaTypeOK, Engage, assetVars, intentVars
<1>6. ASSUME NEW i \in Intents, EndNegotiation(i) PROVE ArenaTypeOK'
  BY <1>6, Zenon DEF ArenaTypeOK, EndNegotiation, assetVars, intentVars, PairingStatus
<1>7. ASSUME NEW i \in Intents, Accept(i) PROVE ArenaTypeOK'
  <2>1. CASE mode = "none"
    BY <1>7, <2>1, Zenon DEF ArenaTypeOK, Accept, assetVars, intentVars, PairingStatus
  <2>2. CASE mode # "none"
    <3>1. FreezeIntent(i) /\ UNCHANGED <<mode, round, run, slot, assetVars>>
      BY <1>7, <2>2, Zenon DEF Accept
    <3>2. created' \in Seq(Intents)
      BY <3>1 DEF FreezeIntent, ArenaTypeOK
    <3> QED
      BY <3>1, <3>2, Zenon DEF ArenaTypeOK, FreezeIntent, assetVars, PairingStatus, IntentStatus
  <2> QED
    BY <2>1, <2>2, Zenon
<1>8. ASSUME NEW i \in Intents, NEW source \in ApprovalSources, record_settlement_approval(i, source)
      PROVE  ArenaTypeOK'
  BY <1>8, Zenon DEF ArenaTypeOK, record_settlement_approval, marketVars, dealVars, assetVars
<1>9. ASSUME NEW i \in Intents, NEW t \in Txs, NEW source \in SubmissionSources,
             record_settlement_submission(i, t, source)
      PROVE  ArenaTypeOK'
  BY <1>9, Zenon DEF ArenaTypeOK, record_settlement_submission, marketVars, dealVars, assetVars,
       IntentStatus
<1>10. ASSUME NEW i \in Intents, mark_confirmation_timeout(i) PROVE ArenaTypeOK'
  BY <1>10, Zenon DEF ArenaTypeOK, mark_confirmation_timeout, marketVars, dealVars, assetVars,
       IntentStatus
<1>11. ASSUME NEW i \in Intents, record_automatic_failure(i) PROVE ArenaTypeOK'
  BY <1>11, Zenon DEF ArenaTypeOK, record_automatic_failure, CloseDeal, ReleasedParties,
       marketVars, assetVars, IntentStatus, PairingStatus
<1>12. ASSUME NEW i \in Intents, NEW t \in Txs, record_chain_reverted(i, t) PROVE ArenaTypeOK'
  BY <1>12, Zenon DEF ArenaTypeOK, record_chain_reverted, CloseDeal, ReleasedParties, marketVars,
       assetVars, IntentStatus, PairingStatus
<1>13. ASSUME NEW i \in Intents, NEW t \in Txs, NEW depth \in 1..MaxDepth,
              record_chain_confirmation(i, t, depth)
       PROVE  ArenaTypeOK'
  <2>1. depth \in 0..MaxDepth
    BY IntentsAssumption
  <2> QED
    BY <1>13, <2>1, Zenon DEF ArenaTypeOK, record_chain_confirmation, marketVars, dealVars,
         assetVars, IntentStatus
<1>14. ASSUME NEW i \in Intents, commit_confirmed_inventory(i) PROVE ArenaTypeOK'
  <2>1. /\ cash' \in [Participants -> Int]
        /\ holding' \in [Participants -> [Goods -> Int]]
        /\ participant' \in [Participants -> {"active", "settling"}]
    <3>1. CASE intent[i] = "inventory_committed"
      BY <1>14, <3>1, Zenon DEF ArenaTypeOK, commit_confirmed_inventory, assetVars
    <3>2. CASE intent[i] # "inventory_committed"
      BY <1>14, <3>2, MoveAssetsType, Zenon DEF ArenaTypeOK, commit_confirmed_inventory,
           ReleasedParties
    <3> QED
      BY <3>1, <3>2, Zenon
  <2>2. /\ intent' = [intent EXCEPT ![i] = "inventory_committed"]
        /\ CloseDeal(i, "settled")
        /\ UNCHANGED <<marketVars, approval, submission, confirmation, created>>
    BY <1>14, Zenon DEF commit_confirmed_inventory
  <2> QED
    BY <2>1, <2>2, Zenon DEF ArenaTypeOK, CloseDeal, marketVars, IntentStatus, PairingStatus
<1> QED
  BY <1>1, <1>2, <1>3, <1>4, <1>5, <1>6, <1>7, <1>8, <1>9, <1>10, <1>11, <1>12, <1>13, <1>14,
       Zenon DEF ArenaNext

\* The first rows of a Game have their types.
LEMMA ArenaTypeInit == ASSUME ArenaInit PROVE ArenaTypeOK
<1>1. \A n \in Nat : 1 \in 1..(n + 1)
  OBVIOUS
<1>2. NRounds \in Nat /\ 0 \in 0..MaxDepth
  BY TermsAssumption, IntentsAssumption
<1>3. InitCash \in [Participants -> Int] /\ InitHolding \in [Participants -> [Goods -> Int]]
  BY IntentsAssumption
<1> QED
  BY <1>1, <1>2, <1>3 DEF ArenaInit, ArenaTypeOK, NoSubmission, PairingStatus, IntentStatus

\* For every set of deals, participants and rounds: the rows keep their types.
THEOREM ArenaTypeCorrect == ArenaSpec => []ArenaTypeOK
<1>1. ArenaInit => ArenaTypeOK
  BY ArenaTypeInit, Zenon
<1>2. ArenaTypeOK /\ [ArenaNext]_arenaVars => ArenaTypeOK'
  BY ArenaTypeStep, Zenon
<1> QED
  BY <1>1, <1>2, PTL DEF ArenaSpec

-----------------------------------------------------------------------------
(* The inductive invariant *)

\* The statuses, spelled out.
LEMMA LiveStatuses ==
    /\ Live = {"authorization_requested", "submitted", "confirmation_timeout",
               "chain_confirmed_uncommitted"}
    /\ \A i \in Intents : ArenaTypeOK => intent[i] \in IntentStatus
BY Zenon DEF Live, Terminal, IntentStatus, ArenaTypeOK

\* A negotiation that is still open has no intent yet.
LEMMA OpenHasNoIntent ==
    ASSUME ArenaTypeOK, DealRowsAgree, NEW i \in Intents,
           negotiation[i] \in {"none", "engaged", "active"}
    PROVE  intent[i] = "none"
BY LiveStatuses, Zenon DEF DealRowsAgree, IntentStatus

\* Two deals that hold their slots share no party.
LEMMA HoldersDisjoint ==
    ASSUME SlotsHeld, NEW i \in Intents, NEW j \in Intents, i # j, Holding(i), Holding(j)
    PROVE  Parties(i) \cap Parties(j) = {}
BY Zenon DEF SlotsHeld

\* Steps that only move a live intent to a live status.
LiveMove(i) ==
    /\ intent[i] \in Live /\ intent'[i] \in Live
    /\ \A j \in Intents \ {i} : intent'[j] = intent[j]
    /\ UNCHANGED <<marketVars, dealVars, assetVars>>

\* Such a step keeps the slots, the cover and the agreement of the rows.
LEMMA LiveMoveStep ==
    ASSUME ArenaInv, NEW i \in Intents, LiveMove(i)
    PROVE  SlotsHeld' /\ CommitNeverRefused' /\ DealRowsAgree'
<1>1. \A j \in Intents : (intent'[j] \in Live) <=> (intent[j] \in Live)
  BY Zenon DEF LiveMove
<1>2. UNCHANGED <<mode, round, phase, run, slot, negotiation, pairing, participant, cash, holding>>
  BY Zenon DEF LiveMove, marketVars, dealVars, assetVars
<1>3. SlotsHeld'
  BY <1>1, <1>2, Zenon DEF ArenaInv, SlotsHeld, Holding
<1>4. CommitNeverRefused'
  BY <1>1, <1>2, Zenon DEF ArenaInv, CommitNeverRefused, Covered
<1>5. \A j \in Intents :
         /\ (intent'[j] = "inventory_committed") <=> (intent[j] = "inventory_committed")
         /\ (intent'[j] \in {"authorization_failed", "reverted"}) <=>
               (intent[j] \in {"authorization_failed", "reverted"})
  BY LiveStatuses, Zenon DEF LiveMove
<1>6. DealRowsAgree'
  BY <1>1, <1>2, <1>5, Zenon DEF ArenaInv, DealRowsAgree
<1> QED
  BY <1>3, <1>4, <1>6, Zenon

\* Steps before the freeze: they touch no intent and no asset, and only
\* negotiations that are still open.
OpenMove ==
    /\ UNCHANGED <<assetVars, intentVars, participant, mode>>
    /\ \A j \in Intents :
          \/ negotiation'[j] = negotiation[j] /\ pairing'[j] = pairing[j]
          \/ /\ negotiation[j] \in {"none", "engaged", "active"}
             /\ negotiation'[j] \in {"engaged", "active", "rejected", "settlement_failed"}
             /\ pairing'[j] \in {pairing[j], "negotiating", "rejected", "settlement_failed"}

\* Such a step keeps the cover, the agreement of the rows and the evidence.
LEMMA OpenMoveStep ==
    ASSUME ArenaInv, OpenMove
    PROVE  CommitNeverRefused' /\ DealRowsAgree' /\ EvidenceComplete'
<1>1. UNCHANGED <<cash, holding, intent, approval, submission, confirmation, participant>>
  BY Zenon DEF OpenMove, assetVars, intentVars
<1>2. CommitNeverRefused' /\ EvidenceComplete'
  BY <1>1, Zenon DEF ArenaInv, CommitNeverRefused, Covered, EvidenceComplete
<1>3. ASSUME NEW j \in Intents
      PROVE  /\ (pairing'[j] = "settling") <=> (intent[j] \in Live)
             /\ (negotiation'[j] = "accepted_pending_settlement") <=> (intent[j] \in Live)
             /\ (pairing'[j] = "settled") <=> (intent[j] = "inventory_committed")
             /\ (negotiation'[j] = "settled") <=> (intent[j] = "inventory_committed")
             /\ intent[j] \in {"authorization_failed", "reverted"} =>
                   pairing'[j] = "settlement_failed" /\ negotiation'[j] = "settlement_failed"
  <2>1. CASE negotiation'[j] = negotiation[j] /\ pairing'[j] = pairing[j]
    BY <2>1, Zenon DEF ArenaInv, DealRowsAgree
  <2>2. CASE /\ negotiation[j] \in {"none", "engaged", "active"}
             /\ negotiation'[j] \in {"engaged", "active", "rejected", "settlement_failed"}
             /\ pairing'[j] \in {pairing[j], "negotiating", "rejected", "settlement_failed"}
    <3>1. intent[j] = "none"
      BY <2>2, OpenHasNoIntent, Zenon DEF ArenaInv
    <3>2. pairing[j] # "settling" /\ pairing[j] # "settled"
      BY <3>1, LiveStatuses, Zenon DEF ArenaInv, DealRowsAgree
    <3> QED
      BY <2>2, <3>1, <3>2, LiveStatuses, Zenon
  <2> QED
    BY <2>1, <2>2, Zenon DEF OpenMove
<1>4. DealRowsAgree'
  BY <1>1, <1>3, Zenon DEF ArenaInv, DealRowsAgree
<1> QED
  BY <1>2, <1>4, Zenon

\* Steps that end a live deal: its rows close and its parties are released.
EndMove(i, status, closed) ==
    /\ intent[i] \in Live
    /\ intent' = [intent EXCEPT ![i] = status]
    /\ CloseDeal(i, closed)
    /\ participant' = ReleasedParties(i)
    /\ UNCHANGED marketVars

\* Ending a deal leaves the rows of every deal in agreement: the parties that
\* are released are in no other live deal.
LEMMA EndMoveRows ==
    ASSUME ArenaInv, NEW i \in Intents, NEW status, NEW closed, EndMove(i, status, closed),
           \/ status \in {"authorization_failed", "reverted"} /\ closed = "settlement_failed"
           \/ status = "inventory_committed" /\ closed = "settled"
    PROVE  DealRowsAgree' /\ SlotsHeld'
<1>1. /\ intent'[i] = status /\ \A j \in Intents \ {i} : intent'[j] = intent[j]
      /\ pairing'[i] = closed /\ \A j \in Intents \ {i} : pairing'[j] = pairing[j]
      /\ \A j \in Intents \ {i} : negotiation'[j] = negotiation[j]
  BY Zenon DEF EndMove, CloseDeal, ArenaInv, ArenaTypeOK
<1>2. negotiation'[i] = closed
  <2>1. negotiation[i] = "accepted_pending_settlement"
    BY Zenon DEF EndMove, ArenaInv, DealRowsAgree
  <2> QED
    BY <2>1, Zenon DEF EndMove, CloseDeal, ArenaInv, ArenaTypeOK
<1>3. status \notin Live
  BY LiveStatuses, Zenon
<1>4. ASSUME NEW j \in Intents
      PROVE  /\ (pairing'[j] = "settling") <=> (intent'[j] \in Live)
             /\ (negotiation'[j] = "accepted_pending_settlement") <=> (intent'[j] \in Live)
             /\ (pairing'[j] = "settled") <=> (intent'[j] = "inventory_committed")
             /\ (negotiation'[j] = "settled") <=> (intent'[j] = "inventory_committed")
             /\ intent'[j] \in {"authorization_failed", "reverted"} =>
                   pairing'[j] = "settlement_failed" /\ negotiation'[j] = "settlement_failed"
  <2>1. CASE j = i
    BY <1>1, <1>2, <1>3, <2>1, Zenon
  <2>2. CASE j # i
    BY <1>1, <2>2 DEF ArenaInv, DealRowsAgree
  <2> QED
    BY <2>1, <2>2, Zenon
<1>5. ASSUME NEW p \in Participants
      PROVE  (participant'[p] = "settling") <=>
                (\E j \in Intents : intent'[j] \in Live /\ p \in Parties(j))
  <2>1. participant'[p] = IF p \in Parties(i) THEN "active" ELSE participant[p]
    BY Zenon DEF EndMove, ReleasedParties
  <2>2. CASE p \in Parties(i)
    <3>1. \A j \in Intents \ {i} : intent[j] \in Live => p \notin Parties(j)
      BY <2>2, HoldersDisjoint, Zenon DEF ArenaInv, EndMove, Holding
    <3> QED
      BY <1>1, <1>3, <2>1, <2>2, <3>1, Zenon
  <2>3. CASE p \notin Parties(i)
    BY <1>1, <1>3, <2>1, <2>3 DEF ArenaInv, DealRowsAgree
  <2> QED
    BY <2>2, <2>3, Zenon
<1>6. DealRowsAgree'
  BY <1>4, <1>5, Zenon DEF DealRowsAgree
<1>7. SlotsHeld'
  <2>1. UNCHANGED <<round, slot>>
    BY Zenon DEF EndMove, marketVars
  <2>2. \A j \in Intents : Holding(j)' => Holding(j)
    <3>1. ~Holding(i)'
      BY <1>1, <1>2, <1>3, Zenon DEF Holding
    <3>2. \A j \in Intents \ {i} : Holding(j)' => Holding(j)
      BY <1>1, <2>1, Zenon DEF Holding
    <3> QED
      BY <3>1, <3>2, Zenon
  <2> QED
    BY <2>1, <2>2, Zenon DEF ArenaInv, SlotsHeld
<1> QED
  BY <1>6, <1>7, Zenon

\* A failed deal moves no asset, so every other frozen deal stays covered.
LEMMA FailedMoveCover ==
    ASSUME ArenaInv, NEW i \in Intents, NEW status \in {"authorization_failed", "reverted"},
           EndMove(i, status, "settlement_failed"), UNCHANGED assetVars
    PROVE  CommitNeverRefused'
<1>1. /\ intent'[i] \notin Live /\ \A j \in Intents \ {i} : intent'[j] = intent[j]
      /\ cash' = cash /\ holding' = holding
  BY LiveStatuses, Zenon DEF EndMove, assetVars, ArenaInv, ArenaTypeOK
<1> QED
  BY <1>1, Zenon DEF CommitNeverRefused, Covered, ArenaInv

\* A committed deal moves only its parties' assets, and no party of it is in
\* another frozen deal.
LEMMA CommitMoveCover ==
    ASSUME ArenaInv, NEW i \in Intents, EndMove(i, "inventory_committed", "settled"), MoveAssets(i)
    PROVE  CommitNeverRefused'
<1>1. /\ intent'[i] \notin Live /\ \A j \in Intents \ {i} : intent'[j] = intent[j]
  BY LiveStatuses, Zenon DEF EndMove, ArenaInv, ArenaTypeOK
<1>2. \A p \in Participants \ Parties(i) : cash'[p] = cash[p] /\ holding'[p] = holding[p]
  BY Terms, Zenon DEF MoveAssets, Parties, ArenaInv, ArenaTypeOK
<1>3. ASSUME NEW j \in Intents, intent'[j] \in Live PROVE Covered(j)'
  <2>1. j # i /\ intent[j] \in Live
    BY <1>1, <1>3, Zenon
  <2>2. Parties(i) \cap Parties(j) = {}
    BY <2>1, HoldersDisjoint, Zenon DEF ArenaInv, EndMove, Holding
  <2>3. /\ Buyer[j] \in Participants \ Parties(i)
        /\ Seller[j] \in Participants \ Parties(i)
    BY <2>2, Terms, Zenon DEF Parties
  <2> QED
    BY <1>2, <2>1, <2>3, Zenon DEF Covered, ArenaInv, CommitNeverRefused
<1> QED
  BY <1>3, Zenon DEF CommitNeverRefused

\* Freezing an accepted negotiation: its parties hold their slots for it, so
\* they are in no other live deal.
LEMMA FreezeRows ==
    ASSUME ArenaInv, NEW i \in Intents, negotiation[i] = "active", FreezeIntent(i),
           UNCHANGED <<round, slot, assetVars>>
    PROVE  SlotsHeld' /\ CommitNeverRefused' /\ DealRowsAgree'
<1>1. /\ intent'[i] = "authorization_requested" /\ \A j \in Intents \ {i} : intent'[j] = intent[j]
      /\ pairing'[i] = "settling" /\ \A j \in Intents \ {i} : pairing'[j] = pairing[j]
      /\ negotiation'[i] = "accepted_pending_settlement"
      /\ \A j \in Intents \ {i} : negotiation'[j] = negotiation[j]
      /\ UNCHANGED <<round, slot, cash, holding>>
  BY Zenon DEF FreezeIntent, assetVars, ArenaInv, ArenaTypeOK
<1>2. intent'[i] \in Live
  BY <1>1, LiveStatuses, Zenon
<1>3. SlotsHeld'
  <2>1. \A j \in Intents : Holding(j)' => Holding(j)
    <3>1. Holding(i)
      BY Zenon DEF Holding
    <3>2. \A j \in Intents \ {i} : Holding(j)' => Holding(j)
      BY <1>1, Zenon DEF Holding
    <3> QED
      BY <3>1, <3>2, Zenon
  <2> QED
    BY <1>1, <2>1, Zenon DEF ArenaInv, SlotsHeld
<1>4. CommitNeverRefused'
  BY <1>1, Zenon DEF FreezeIntent, Covered, ArenaInv, CommitNeverRefused
<1>5. ASSUME NEW j \in Intents
      PROVE  /\ (pairing'[j] = "settling") <=> (intent'[j] \in Live)
             /\ (negotiation'[j] = "accepted_pending_settlement") <=> (intent'[j] \in Live)
             /\ (pairing'[j] = "settled") <=> (intent'[j] = "inventory_committed")
             /\ (negotiation'[j] = "settled") <=> (intent'[j] = "inventory_committed")
             /\ intent'[j] \in {"authorization_failed", "reverted"} =>
                   pairing'[j] = "settlement_failed" /\ negotiation'[j] = "settlement_failed"
  <2>1. CASE j = i
    BY <1>1, <1>2, <2>1, Zenon
  <2>2. CASE j # i
    BY <1>1, <2>2 DEF ArenaInv, DealRowsAgree
  <2> QED
    BY <2>1, <2>2, Zenon
<1>6. ASSUME NEW p \in Participants
      PROVE  (participant'[p] = "settling") <=>
                (\E j \in Intents : intent'[j] \in Live /\ p \in Parties(j))
  <2>1. participant'[p] = IF p \in Parties(i) THEN "settling" ELSE participant[p]
    BY Zenon DEF FreezeIntent
  <2>2. CASE p \in Parties(i)
    BY <1>2, <2>1, <2>2, Zenon
  <2>3. CASE p \notin Parties(i)
    BY <1>1, <2>1, <2>3 DEF ArenaInv, DealRowsAgree
  <2> QED
    BY <2>2, <2>3, Zenon
<1> QED
  BY <1>3, <1>4, <1>5, <1>6, Zenon DEF DealRowsAgree

-----------------------------------------------------------------------------
(* Evidence and the order of statuses *)

\* What EvidenceComplete says of one deal, transactions of other deals aside.
Evidence(i) ==
    /\ (intent[i] \in Submitted) <=> (submission[i].tx # NoTx)
    /\ submission[i].tx # NoTx => approval[i] # "none"
    /\ (intent[i] \in Confirmed) <=> (confirmation[i] # 0)
    /\ confirmation[i] # 0 => confirmation[i] >= RequiredConfirmations
    /\ submission[i].tx = NoTx => submission[i] = NoSubmission

UniqueTx ==
    \A i \in Intents : \A j \in Intents \ {i} :
        submission[i].tx # NoTx => submission[j].tx # submission[i].tx

\* The columns one transaction leaves alone.
SameEvidence(j) ==
    /\ intent'[j] = intent[j] /\ approval'[j] = approval[j]
    /\ submission'[j] = submission[j] /\ confirmation'[j] = confirmation[j]

\* A step that leaves a deal's evidence alone keeps what the evidence supports.
LEMMA SameEvidenceStep ==
    ASSUME NEW j \in Intents, Evidence(j), SameEvidence(j)
    PROVE  Evidence(j)' /\ Forward(j)
BY Zenon DEF Evidence, SameEvidence, Forward

\* The freeze.
LEMMA FreezeEvidence ==
    ASSUME ArenaTypeOK, NEW i \in Intents, Evidence(i), intent[i] = "none", FreezeIntent(i)
    PROVE  /\ Evidence(i)' /\ Forward(i) /\ submission' = submission
           /\ \A j \in Intents \ {i} : SameEvidence(j)
<1>1. intent'[i] = "authorization_requested" /\ UNCHANGED <<approval, submission, confirmation>>
  BY Zenon DEF FreezeIntent, ArenaTypeOK
<1>2. \A j \in Intents \ {i} : SameEvidence(j)
  BY Zenon DEF FreezeIntent, ArenaTypeOK, SameEvidence
<1>3. <<intent[i], intent'[i]>> \in Moves
  BY <1>1, Zenon DEF Moves
<1> QED
  BY <1>1, <1>2, <1>3, Zenon DEF Evidence, Forward, Submitted, Confirmed

\* The operator's and the mandate's approval.
LEMMA ApprovalEvidence ==
    ASSUME ArenaTypeOK, NEW i \in Intents, NEW source \in ApprovalSources, Evidence(i),
           record_settlement_approval(i, source)
    PROVE  /\ Evidence(i)' /\ Forward(i) /\ submission' = submission
           /\ \A j \in Intents \ {i} : SameEvidence(j)
<1>1. /\ approval'[i] = source /\ source # "none" /\ approval[i] \in {"none", source}
      /\ UNCHANGED <<intent, submission, confirmation>>
      /\ \A j \in Intents \ {i} : approval'[j] = approval[j]
  BY Zenon DEF record_settlement_approval, CanApprove, ArenaTypeOK, ApprovalSources
<1> QED
  BY <1>1, Zenon DEF Evidence, Forward, SameEvidence

\* The recorded transaction: the first one is new to every deal and starts
\* from an approved request, a repeated one changes nothing.
LEMMA SubmissionEvidence ==
    ASSUME ArenaTypeOK, NEW i \in Intents, NEW t \in Txs, NEW source \in SubmissionSources,
           Evidence(i), UniqueTx, record_settlement_submission(i, t, source)
    PROVE  /\ Evidence(i)' /\ Forward(i) /\ UniqueTx'
           /\ \A j \in Intents \ {i} : SameEvidence(j)
           /\ intent'[i] = intent[i] \/
                 (intent[i] = "authorization_requested" /\ intent'[i] = "submitted")
<1>1. /\ submission'[i] = [tx |-> t, source |-> source]
      /\ UNCHANGED <<approval, confirmation>>
      /\ \A j \in Intents \ {i} : submission'[j] = submission[j] /\ intent'[j] = intent[j]
  BY Zenon DEF record_settlement_submission, ArenaTypeOK
<1>2. submission'[i].tx = t /\ t # NoTx
  BY <1>1, TermsAssumption
<1>3. CASE submission[i] # NoSubmission
  <2>1. submission'[i] = submission[i] /\ intent' = intent
    BY <1>1, <1>3, Zenon DEF record_settlement_submission, CanRecordSubmission
  <2>2. \A j \in Intents : SameEvidence(j)
    BY <1>1, <2>1, Zenon DEF SameEvidence
  <2>3. UniqueTx'
    BY <2>2 DEF UniqueTx, SameEvidence
  <2> QED
    BY <2>1, <2>2, <2>3, SameEvidenceStep, Zenon
<1>4. CASE submission[i] = NoSubmission
  <2>1. /\ approval[i] # "none"
        /\ intent[i] \in {"authorization_requested", "confirmation_timeout"}
        /\ \A j \in Intents : submission[j].tx # t
        /\ intent'[i] = "submitted"
    BY <1>4, Zenon DEF record_settlement_submission, CanRecordSubmission, ArenaTypeOK
  <2>2. submission[i].tx = NoTx
    <3>1. NoSubmission.tx = NoTx
      BY Zenon DEF NoSubmission
    <3> QED
      BY <1>4, <3>1, Zenon
  <2>3. intent[i] = "authorization_requested"
    BY <2>1, <2>2, Zenon DEF Evidence, Submitted
  <2>4. <<intent[i], intent'[i]>> \in Moves
    BY <2>1, <2>3, Zenon DEF Moves
  <2>5. Evidence(i)'
    <3>1. confirmation[i] = 0
      BY <2>3, Zenon DEF Evidence, Confirmed
    <3> QED
      BY <1>1, <1>2, <2>1, <3>1, Zenon DEF Evidence, Submitted, Confirmed
  <2>6. UniqueTx'
    BY <1>1, <1>2, <2>1 DEF UniqueTx
  <2> QED
    BY <1>1, <1>4, <2>1, <2>2, <2>3, <2>4, <2>5, <2>6, Zenon DEF Forward, SameEvidence, Evidence,
         Submitted, Confirmed
<1> QED
  BY <1>3, <1>4, Zenon

\* The other status changes of one intent and the evidence they rest on.
StatusMove(i, status) ==
    /\ intent' = [intent EXCEPT ![i] = status]
    /\ UNCHANGED <<approval, submission, confirmation>>

\* A status move that writes no evidence row keeps the evidence if the new status needs what the old one had.
LEMMA StatusMoveEvidence ==
    ASSUME ArenaTypeOK, NEW i \in Intents, NEW status, Evidence(i), StatusMove(i, status),
           \/ status = intent[i]
           \/ status = "confirmation_timeout" /\ intent[i] = "submitted"
           \/ status = "authorization_failed" /\ intent[i] = "authorization_requested"
           \/ status = "reverted" /\ intent[i] \in {"submitted", "confirmation_timeout"}
           \/ status = "inventory_committed" /\ intent[i] = "chain_confirmed_uncommitted"
    PROVE  /\ Evidence(i)' /\ Forward(i) /\ submission' = submission
           /\ \A j \in Intents \ {i} : SameEvidence(j)
<1>1. /\ intent'[i] = status /\ UNCHANGED <<approval, submission, confirmation>>
      /\ \A j \in Intents \ {i} : intent'[j] = intent[j]
  BY Zenon DEF StatusMove, ArenaTypeOK
<1>2. intent'[i] = intent[i] \/ <<intent[i], intent'[i]>> \in Moves
  BY <1>1, Zenon DEF Moves
<1>3. /\ (intent'[i] \in Submitted) <=> (intent[i] \in Submitted)
      /\ (intent'[i] \in Confirmed) <=> (intent[i] \in Confirmed)
  BY <1>1, Zenon DEF Submitted, Confirmed
<1> QED
  BY <1>1, <1>2, <1>3, Zenon DEF Evidence, Forward, SameEvidence

\* Chain evidence: deep enough the first time, identical afterwards.
LEMMA ConfirmationEvidence ==
    ASSUME ArenaTypeOK, NEW i \in Intents, NEW t \in Txs, NEW depth \in 1..MaxDepth,
           Evidence(i), record_chain_confirmation(i, t, depth)
    PROVE  /\ Evidence(i)' /\ Forward(i) /\ submission' = submission
           /\ \A j \in Intents \ {i} : SameEvidence(j)
           /\ \/ intent'[i] = intent[i]
              \/ /\ intent[i] \in {"submitted", "confirmation_timeout"}
                 /\ intent'[i] = "chain_confirmed_uncommitted"
<1>1. /\ confirmation'[i] = depth /\ UNCHANGED <<approval, submission>>
      /\ \A j \in Intents \ {i} : confirmation'[j] = confirmation[j] /\ intent'[j] = intent[j]
      /\ depth >= RequiredConfirmations /\ depth # 0
  BY IntentsAssumption DEF record_chain_confirmation, CanRecordConfirmation, ArenaTypeOK
<1>2. CASE confirmation[i] # 0
  BY <1>1, <1>2, Zenon DEF record_chain_confirmation, CanRecordConfirmation, Evidence, Forward,
       SameEvidence
<1>3. CASE confirmation[i] = 0
  <2>1. /\ intent[i] \in {"submitted", "confirmation_timeout"}
        /\ intent'[i] = "chain_confirmed_uncommitted"
    BY <1>3, Zenon DEF record_chain_confirmation, CanRecordConfirmation, ArenaTypeOK
  <2>2. <<intent[i], intent'[i]>> \in Moves
    BY <2>1, Zenon DEF Moves
  <2> QED
    BY <1>1, <1>3, <2>1, <2>2, Zenon DEF Evidence, Forward, SameEvidence, Submitted, Confirmed
<1> QED
  BY <1>2, <1>3, Zenon

-----------------------------------------------------------------------------
(* Every transaction keeps the invariant and moves statuses forward *)

Begun == \A j \in Intents : negotiation[j] # "none" => RoundOf[j] <= round

\* ArenaInv deal by deal: what it says of each one, and of pairs of transactions.
LEMMA InvParts ==
    ArenaInv <=> /\ ArenaTypeOK /\ SlotsHeld /\ CommitNeverRefused /\ DealRowsAgree
                 /\ Begun /\ UniqueTx /\ \A j \in Intents : Evidence(j)
BY Zenon DEF ArenaInv, Started, Begun, EvidenceComplete, UniqueTx, Evidence

\* The rows of negotiations and pairings that an UPDATE of one of them keeps.
LEMMA RowDomains ==
    ASSUME ArenaInv
    PROVE  /\ negotiation = [j \in Intents |-> negotiation[j]]
           /\ pairing = [j \in Intents |-> pairing[j]]
BY Zenon DEF ArenaInv, ArenaTypeOK

\* A step that touches the evidence of at most one deal keeps the invariant if
\* it does so for that deal and keeps the rows.
LEMMA Assemble ==
    ASSUME ArenaInv, ArenaTypeOK', NEW i \in Intents,
           Evidence(i)', Forward(i), UniqueTx', \A j \in Intents \ {i} : SameEvidence(j),
           Begun', SlotsHeld', CommitNeverRefused', DealRowsAgree'
    PROVE  ArenaInv' /\ \A j \in Intents : Forward(j)
<1>1. \A j \in Intents \ {i} : Evidence(j)' /\ Forward(j)
  BY InvParts, SameEvidenceStep, Zenon
<1>2. \A j \in Intents : Evidence(j)' /\ Forward(j)
  BY <1>1, Zenon
<1>3. /\ ArenaTypeOK' /\ SlotsHeld' /\ CommitNeverRefused' /\ DealRowsAgree'
      /\ Begun' /\ UniqueTx' /\ \A j \in Intents : Evidence(j)'
  BY <1>2, Zenon
<1>4. ArenaInv'
  BY <1>3, Zenon DEF ArenaInv, Started, Begun, EvidenceComplete, UniqueTx, Evidence
<1> QED
  BY <1>2, <1>4, Zenon

\* Steps before the freeze.
LEMMA AssembleOpen ==
    ASSUME ArenaInv, ArenaTypeOK', OpenMove, Begun', SlotsHeld'
    PROVE  ArenaInv' /\ \A j \in Intents : Forward(j)
<1>1. UNCHANGED <<intent, approval, submission, confirmation>>
  BY Zenon DEF OpenMove, intentVars
<1>2. \A j \in Intents : Forward(j)
  BY <1>1, Zenon DEF Forward
<1>3. CommitNeverRefused' /\ DealRowsAgree' /\ EvidenceComplete'
  BY OpenMoveStep, Zenon
<1>4. Started'
  BY <1>1, Zenon DEF ArenaInv, Started, Begun
<1> QED
  BY <1>2, <1>3, <1>4, Zenon DEF ArenaInv

\* materialize_agent_market_engagements
LEMMA MaterializeStep ==
    ASSUME ArenaInv, ArenaTypeOK', materialize_agent_market_engagements
    PROVE  ArenaInv' /\ \A j \in Intents : Forward(j)
<1>1. \A j \in Intents :
         \/ negotiation'[j] = negotiation[j] /\ pairing'[j] = pairing[j]
         \/ /\ RoundOf[j] = round /\ negotiation[j] = "engaged"
            /\ negotiation'[j] = "active" /\ pairing'[j] = "negotiating"
  BY Zenon DEF materialize_agent_market_engagements
<1>2. UNCHANGED <<mode, round, phase, run, slot, participant, assetVars, intentVars>>
  BY Zenon DEF materialize_agent_market_engagements, marketVars
<1>3. OpenMove
  BY <1>1, <1>2, Zenon DEF OpenMove
<1>4. UNCHANGED intent
  BY <1>2, Zenon DEF intentVars
<1>5. \A j \in Intents : Holding(j)' => Holding(j)
  BY <1>1, <1>2, <1>4, Zenon DEF Holding
<1>6. SlotsHeld'
  BY <1>2, <1>5, Zenon DEF ArenaInv, SlotsHeld
<1>7. Begun'
  BY <1>1, <1>2, InvParts, Zenon DEF Begun
<1> QED
  BY <1>3, <1>6, <1>7, AssembleOpen, Zenon

\* complete_hosted_run
LEMMA CompleteRunStep ==
    ASSUME ArenaInv, ArenaTypeOK', complete_hosted_run
    PROVE  ArenaInv' /\ \A j \in Intents : Forward(j)
<1>1. UNCHANGED <<mode, round, slot, negotiation, pairing, participant, assetVars, intentVars>>
  BY Zenon DEF complete_hosted_run, dealVars
<1>2. OpenMove
  BY <1>1, Zenon DEF OpenMove
<1>3. UNCHANGED intent
  BY <1>1, Zenon DEF intentVars
<1>4. SlotsHeld' /\ Begun'
  BY <1>1, <1>3, InvParts, Zenon DEF SlotsHeld, Holding, Begun
<1> QED
  BY <1>2, <1>4, AssembleOpen, Zenon

\* advance_round_or_game closes the round over no unfinished deal.
LEMMA AdvanceStep ==
    ASSUME ArenaInv, ArenaTypeOK', advance_round_or_game
    PROVE  ArenaInv' /\ \A j \in Intents : Forward(j)
<1>1. /\ UNCHANGED <<mode, negotiation, pairing, participant, assetVars, intentVars>>
      /\ RoundDone /\ round' = round + 1
  BY Zenon DEF advance_round_or_game, dealVars
<1>2. OpenMove
  BY <1>1, Zenon DEF OpenMove
<1>3. UNCHANGED intent
  BY <1>1, Zenon DEF intentVars
<1>4. round \in Int /\ \A j \in Intents : RoundOf[j] \in Int
  <2>1. round \in Int
    <3>1. round \in 1..(NRounds + 1)
      BY Zenon DEF ArenaInv, ArenaTypeOK
    <3> QED
      BY <3>1
  <2>2. \A j \in Intents : RoundOf[j] \in Int
    BY Terms
  <2> QED
    BY <2>1, <2>2, Zenon
<1>5. Begun'
  <2>1. Begun
    BY InvParts, Zenon
  <2> QED
    BY <1>1, <1>4, <2>1 DEF Begun
<1>6. ASSUME NEW j \in Intents PROVE ~Holding(j)'
  <2>1. negotiation[j] # "active" /\ intent[j] \notin Live
    <3>1. ASSUME negotiation[j] = "active" \/ intent[j] \in Live PROVE FALSE
      <4>1. RoundOf[j] = round
        BY <3>1, Zenon DEF ArenaInv, SlotsHeld, Holding
      <4>2. negotiation[j] # "active" /\ pairing[j] # "settling"
        BY <1>1, <4>1, Zenon DEF RoundDone
      <4> QED
        BY <3>1, <4>2, Zenon DEF ArenaInv, DealRowsAgree
    <3> QED
      BY <3>1, Zenon
  <2>2. negotiation[j] = "engaged" => RoundOf[j] # round + 1
    BY <1>4, InvParts DEF Begun
  <2> QED
    BY <1>1, <1>3, <2>1, <2>2, Zenon DEF Holding
<1>7. SlotsHeld'
  BY <1>6, Zenon DEF SlotsHeld
<1> QED
  BY <1>2, <1>5, <1>7, AssembleOpen, Zenon

\* Engage takes two free slots, which no other deal holds.
LEMMA EngageStep ==
    ASSUME ArenaInv, ArenaTypeOK', NEW i \in Intents, Engage(i)
    PROVE  ArenaInv' /\ \A j \in Intents : Forward(j)
<1>1. /\ UNCHANGED <<mode, round, pairing, participant, assetVars, intentVars>>
      /\ negotiation[i] = "none" /\ RoundOf[i] = round
      /\ negotiation'[i] = "engaged"
      /\ \A j \in Intents \ {i} : negotiation'[j] = negotiation[j]
      /\ \A p \in Participants : slot'[p] = IF p \in Parties(i) THEN i ELSE slot[p]
      /\ SlotsFree(i)
  <2>1. negotiation' = [negotiation EXCEPT ![i] = "engaged"]
    BY Zenon DEF Engage
  <2>2. /\ negotiation'[i] = "engaged"
        /\ \A j \in Intents \ {i} : negotiation'[j] = negotiation[j]
    BY <2>1, RowDomains, Zenon
  <2> QED
    BY <2>2, Zenon DEF Engage
<1>2. OpenMove
  BY <1>1, Zenon DEF OpenMove
<1>3. UNCHANGED intent
  BY <1>1, Zenon DEF intentVars
<1>4. round \in Int /\ Begun'
  <2>1. round \in 1..(NRounds + 1) /\ Begun
    BY InvParts, Zenon DEF ArenaTypeOK
  <2>2. RoundOf[i] <= round
    BY <1>1, <2>1
  <2>3. Begun'
    BY <1>1, <2>1, <2>2, Zenon DEF Begun
  <2> QED
    BY <2>1, <2>3
<1>5. ASSUME NEW j \in Intents, Holding(j)' PROVE RoundOf[j] = round /\ \A p \in Parties(j) : slot'[p] = j
  <2>1. CASE j = i
    BY <1>1, <2>1, Terms, Zenon
  <2>2. CASE j # i
    <3>1. Holding(j)
      BY <1>1, <1>3, <1>5, <2>2, Zenon DEF Holding
    <3>2. RoundOf[j] = round /\ \A p \in Parties(j) : slot[p] = j
      BY <3>1, Zenon DEF ArenaInv, SlotsHeld
    <3>3. \A p \in Parties(j) : p \notin Parties(i)
      BY <1>1, <3>2, IntentsAssumption, Zenon DEF SlotsFree
    <3> QED
      BY <1>1, <3>2, <3>3, Terms, Zenon
  <2> QED
    BY <2>1, <2>2, Zenon
<1>6. SlotsHeld'
  BY <1>1, <1>5, Zenon DEF SlotsHeld
<1> QED
  BY <1>2, <1>4, <1>6, AssembleOpen, Zenon

\* EndNegotiation frees only the slots its own deal holds.
LEMMA EndNegotiationStep ==
    ASSUME ArenaInv, ArenaTypeOK', NEW i \in Intents, EndNegotiation(i)
    PROVE  ArenaInv' /\ \A j \in Intents : Forward(j)
<1>1. /\ UNCHANGED <<mode, round, participant, assetVars, intentVars>>
      /\ negotiation[i] = "active" /\ negotiation'[i] = "rejected" /\ pairing'[i] = "rejected"
      /\ \A j \in Intents \ {i} : negotiation'[j] = negotiation[j] /\ pairing'[j] = pairing[j]
      /\ \A p \in Participants : slot'[p] = IF slot[p] = i THEN Free ELSE slot[p]
  <2>1. /\ negotiation' = [negotiation EXCEPT ![i] = "rejected"]
        /\ pairing' = [pairing EXCEPT ![i] = "rejected"]
    BY Zenon DEF EndNegotiation
  <2>2. /\ negotiation'[i] = "rejected" /\ pairing'[i] = "rejected"
        /\ \A j \in Intents \ {i} : negotiation'[j] = negotiation[j] /\ pairing'[j] = pairing[j]
    BY <2>1, RowDomains, Zenon
  <2> QED
    BY <2>2, Zenon DEF EndNegotiation
<1>2. OpenMove
  BY <1>1, Zenon DEF OpenMove
<1>3. UNCHANGED intent
  BY <1>1, Zenon DEF intentVars
<1>4. Begun'
  BY <1>1, InvParts, Zenon DEF Begun
<1>5. intent[i] = "none"
  BY <1>1, OpenHasNoIntent, Zenon DEF ArenaInv
<1>6. ASSUME NEW j \in Intents, Holding(j)' PROVE RoundOf[j] = round /\ \A p \in Parties(j) : slot'[p] = j
  <2>1. j # i /\ Holding(j)
    BY <1>1, <1>3, <1>5, <1>6, LiveStatuses, Zenon DEF Holding
  <2>2. RoundOf[j] = round /\ \A p \in Parties(j) : slot[p] = j
    BY <2>1, Zenon DEF ArenaInv, SlotsHeld
  <2> QED
    BY <1>1, <2>1, <2>2, Terms, Zenon
<1>7. SlotsHeld'
  BY <1>1, <1>6, Zenon DEF SlotsHeld
<1> QED
  BY <1>2, <1>4, <1>7, AssembleOpen, Zenon

\* Accept: without a chain the deal fails at once, with one it is frozen.
LEMMA AcceptStep ==
    ASSUME ArenaInv, ArenaTypeOK', NEW i \in Intents, Accept(i)
    PROVE  ArenaInv' /\ \A j \in Intents : Forward(j)
<1>1. /\ negotiation[i] = "active" /\ UNCHANGED <<mode, round, run, slot, assetVars>>
      /\ intent[i] = "none"
  BY OpenHasNoIntent, Zenon DEF Accept, ArenaInv
<1>2. CASE mode = "none"
  <2>1. /\ negotiation'[i] = "settlement_failed" /\ pairing'[i] = "settlement_failed"
        /\ \A j \in Intents \ {i} : negotiation'[j] = negotiation[j] /\ pairing'[j] = pairing[j]
        /\ UNCHANGED <<participant, intentVars>>
    <3>1. /\ negotiation' = [negotiation EXCEPT ![i] = "settlement_failed"]
          /\ pairing' = [pairing EXCEPT ![i] = "settlement_failed"]
          /\ UNCHANGED <<participant, intentVars>>
      BY <1>2, Zenon DEF Accept
    <3> QED
      BY <3>1, RowDomains, Zenon
  <2>2. OpenMove
    BY <1>1, <2>1, Zenon DEF OpenMove
  <2>3. UNCHANGED intent
    BY <2>1, Zenon DEF intentVars
  <2>4. \A j \in Intents : Holding(j)' => Holding(j)
    BY <1>1, <2>1, <2>3, LiveStatuses, Zenon DEF Holding
  <2>5. SlotsHeld' /\ Begun'
    BY <1>1, <2>1, <2>4, InvParts, Zenon DEF SlotsHeld, Begun
  <2> QED
    BY <2>2, <2>5, AssembleOpen, Zenon
<1>3. CASE mode # "none"
  <2>1. FreezeIntent(i)
    BY <1>3, Zenon DEF Accept
  <2>2. SlotsHeld' /\ CommitNeverRefused' /\ DealRowsAgree'
    BY <1>1, <2>1, FreezeRows, Zenon
  <2>3. /\ Evidence(i)' /\ Forward(i) /\ submission' = submission
        /\ \A j \in Intents \ {i} : SameEvidence(j)
    BY <1>1, <2>1, FreezeEvidence, InvParts, Zenon
  <2>4. UniqueTx'
    BY <2>3, InvParts, Zenon DEF UniqueTx
  <2>5. negotiation' = [negotiation EXCEPT ![i] = "accepted_pending_settlement"]
    BY <2>1, Zenon DEF FreezeIntent
  <2>6. Begun'
    BY <1>1, <2>5, InvParts DEF Begun, ArenaTypeOK
  <2> QED
    BY <2>2, <2>3, <2>4, <2>6, Assemble, Zenon
<1> QED
  BY <1>2, <1>3, Zenon

\* A step that moves one live intent to a live status, or no intent at all.
LEMMA AssembleLive ==
    ASSUME ArenaInv, ArenaTypeOK', NEW i \in Intents,
           Evidence(i)', Forward(i), UniqueTx', \A j \in Intents \ {i} : SameEvidence(j),
           UNCHANGED <<marketVars, dealVars, assetVars>>,
           intent'[i] = intent[i] \/ (intent[i] \in Live /\ intent'[i] \in Live)
    PROVE  ArenaInv' /\ \A j \in Intents : Forward(j)
<1>1. \A j \in Intents \ {i} : intent'[j] = intent[j]
  BY Zenon DEF SameEvidence
<1>2. UNCHANGED <<mode, round, phase, run, slot, negotiation, pairing, participant, cash, holding>>
  BY Zenon DEF marketVars, dealVars, assetVars
<1>3. Begun'
  BY <1>2, InvParts, Zenon DEF Begun
<1>4. CASE intent[i] \in Live /\ intent'[i] \in Live
  <2>1. LiveMove(i)
    BY <1>1, <1>4, Zenon DEF LiveMove
  <2>2. SlotsHeld' /\ CommitNeverRefused' /\ DealRowsAgree'
    BY <2>1, LiveMoveStep, Zenon
  <2> QED
    BY <1>3, <2>2, Assemble, Zenon
<1>5. CASE intent'[i] = intent[i]
  <2>1. \A j \in Intents : intent'[j] = intent[j]
    BY <1>1, <1>5, Zenon
  <2>2. SlotsHeld' /\ CommitNeverRefused'
    BY <1>2, <2>1, Zenon DEF ArenaInv, SlotsHeld, Holding, CommitNeverRefused, Covered
  <2>3. DealRowsAgree'
    BY <1>2, <2>1 DEF ArenaInv, DealRowsAgree
  <2> QED
    BY <1>3, <2>2, <2>3, Assemble, Zenon
<1> QED
  BY <1>4, <1>5, Zenon

\* record_settlement_approval
LEMMA ApprovalStep ==
    ASSUME ArenaInv, ArenaTypeOK', NEW i \in Intents, NEW source \in ApprovalSources,
           record_settlement_approval(i, source)
    PROVE  ArenaInv' /\ \A j \in Intents : Forward(j)
<1>1. /\ Evidence(i)' /\ Forward(i) /\ submission' = submission
      /\ \A j \in Intents \ {i} : SameEvidence(j)
  BY ApprovalEvidence, InvParts, Zenon
<1>2. UniqueTx'
  BY <1>1, InvParts, Zenon DEF UniqueTx
<1>3. UNCHANGED <<marketVars, dealVars, assetVars, intent>>
  BY Zenon DEF record_settlement_approval
<1> QED
  BY <1>1, <1>2, <1>3, AssembleLive, Zenon

\* record_settlement_submission
LEMMA SubmissionStep ==
    ASSUME ArenaInv, ArenaTypeOK', NEW i \in Intents, NEW t \in Txs,
           NEW source \in SubmissionSources, record_settlement_submission(i, t, source)
    PROVE  ArenaInv' /\ \A j \in Intents : Forward(j)
<1>1. /\ Evidence(i)' /\ Forward(i) /\ UniqueTx'
      /\ \A j \in Intents \ {i} : SameEvidence(j)
      /\ intent'[i] = intent[i] \/
            (intent[i] = "authorization_requested" /\ intent'[i] = "submitted")
  BY SubmissionEvidence, InvParts, Zenon
<1>2. UNCHANGED <<marketVars, dealVars, assetVars>>
  BY Zenon DEF record_settlement_submission
<1>3. intent'[i] = intent[i] \/ (intent[i] \in Live /\ intent'[i] \in Live)
  BY <1>1, LiveStatuses, Zenon
<1> QED
  BY <1>1, <1>2, <1>3, AssembleLive, Zenon

\* mark_confirmation_timeout
LEMMA TimeoutStep ==
    ASSUME ArenaInv, ArenaTypeOK', NEW i \in Intents, mark_confirmation_timeout(i)
    PROVE  ArenaInv' /\ \A j \in Intents : Forward(j)
<1>1. /\ StatusMove(i, "confirmation_timeout") /\ intent[i] \in {"submitted", "confirmation_timeout"}
      /\ UNCHANGED <<marketVars, dealVars, assetVars>>
  BY Zenon DEF mark_confirmation_timeout, StatusMove
<1>2. /\ Evidence(i)' /\ Forward(i) /\ submission' = submission
      /\ \A j \in Intents \ {i} : SameEvidence(j)
  BY <1>1, StatusMoveEvidence, InvParts, Zenon
<1>3. UniqueTx'
  BY <1>2, InvParts, Zenon DEF UniqueTx
<1>4. intent[i] \in Live /\ intent'[i] \in Live
  BY <1>1, LiveStatuses DEF StatusMove, ArenaInv, ArenaTypeOK
<1> QED
  BY <1>1, <1>2, <1>3, <1>4, AssembleLive, Zenon

\* record_chain_confirmation
LEMMA ConfirmationStep ==
    ASSUME ArenaInv, ArenaTypeOK', NEW i \in Intents, NEW t \in Txs, NEW depth \in 1..MaxDepth,
           record_chain_confirmation(i, t, depth)
    PROVE  ArenaInv' /\ \A j \in Intents : Forward(j)
<1>1. /\ Evidence(i)' /\ Forward(i) /\ submission' = submission
      /\ \A j \in Intents \ {i} : SameEvidence(j)
      /\ \/ intent'[i] = intent[i]
         \/ /\ intent[i] \in {"submitted", "confirmation_timeout"}
            /\ intent'[i] = "chain_confirmed_uncommitted"
  BY ConfirmationEvidence, InvParts, Zenon
<1>2. UniqueTx'
  BY <1>1, InvParts, Zenon DEF UniqueTx
<1>3. UNCHANGED <<marketVars, dealVars, assetVars>>
  BY Zenon DEF record_chain_confirmation
<1>4. intent'[i] = intent[i] \/ (intent[i] \in Live /\ intent'[i] \in Live)
  BY <1>1, LiveStatuses, Zenon
<1> QED
  BY <1>1, <1>2, <1>3, <1>4, AssembleLive, Zenon

\* Repeating the call that ended a deal finds its rows closed and changes nothing.
LEMMA CloseAgain ==
    ASSUME ArenaInv, NEW i \in Intents, NEW closed, CloseDeal(i, closed),
           \/ intent[i] \in {"authorization_failed", "reverted"} /\ closed = "settlement_failed"
           \/ intent[i] = "inventory_committed" /\ closed = "settled"
    PROVE  UNCHANGED <<pairing, negotiation>>
<1>1. pairing[i] = closed /\ negotiation[i] = closed
  BY Zenon DEF ArenaInv, DealRowsAgree
<1>2. pairing' = [pairing EXCEPT ![i] = pairing[i]] /\ negotiation' = [negotiation EXCEPT ![i] = negotiation[i]]
  BY <1>1, Zenon DEF CloseDeal
<1> QED
  BY <1>2, Zenon DEF ArenaInv, ArenaTypeOK

\* A step that ends a deal the first time, or repeats it.
LEMMA AssembleEnd ==
    ASSUME ArenaInv, ArenaTypeOK', NEW i \in Intents, NEW status, NEW closed,
           \/ status \in {"authorization_failed", "reverted"} /\ closed = "settlement_failed"
           \/ status = "inventory_committed" /\ closed = "settled",
           EndMove(i, status, closed), CommitNeverRefused',
           Evidence(i)', Forward(i), submission' = submission,
           \A j \in Intents \ {i} : SameEvidence(j)
    PROVE  ArenaInv' /\ \A j \in Intents : Forward(j)
<1>1. DealRowsAgree' /\ SlotsHeld'
  BY EndMoveRows, Zenon
<1>2. UniqueTx'
  BY InvParts, Zenon DEF UniqueTx
<1>3. negotiation[i] # "none"
  BY Zenon DEF EndMove, ArenaInv, DealRowsAgree
<1>4. \A j \in Intents \ {i} : negotiation'[j] = negotiation[j]
  BY DEF EndMove, CloseDeal, ArenaInv, ArenaTypeOK
<1>5. Begun'
  BY <1>3, <1>4, InvParts, Zenon DEF Begun, EndMove, marketVars
<1> QED
  BY <1>1, <1>2, <1>5, Assemble, Zenon

\* record_automatic_failure and record_chain_reverted
LEMMA FailureStep ==
    ASSUME ArenaInv, ArenaTypeOK', NEW i \in Intents,
           record_automatic_failure(i) \/ \E t \in Txs : record_chain_reverted(i, t)
    PROVE  ArenaInv' /\ \A j \in Intents : Forward(j)
<1>1. PICK status \in {"authorization_failed", "reverted"} :
         /\ StatusMove(i, status) /\ CloseDeal(i, "settlement_failed")
         /\ \/ status = intent[i]
            \/ status = "authorization_failed" /\ intent[i] = "authorization_requested"
            \/ status = "reverted" /\ intent[i] \in {"submitted", "confirmation_timeout"}
         /\ participant' = IF intent[i] # status THEN ReleasedParties(i) ELSE participant
         /\ UNCHANGED <<marketVars, assetVars>>
  <2>1. CASE record_automatic_failure(i)
    BY <2>1, Zenon DEF record_automatic_failure, CanRecordFailure, StatusMove
  <2>2. ASSUME NEW t \in Txs, record_chain_reverted(i, t)
        PROVE  /\ StatusMove(i, "reverted") /\ CloseDeal(i, "settlement_failed")
               /\ intent[i] \in {"submitted", "confirmation_timeout", "reverted"}
               /\ participant' = IF intent[i] # "reverted" THEN ReleasedParties(i) ELSE participant
               /\ UNCHANGED <<marketVars, assetVars>>
    BY <2>2, Zenon DEF record_chain_reverted, CanRecordReverted, StatusMove
  <2> QED
    BY <2>1, <2>2, Zenon
<1>2. /\ Evidence(i)' /\ Forward(i) /\ submission' = submission
      /\ \A j \in Intents \ {i} : SameEvidence(j)
  BY <1>1, StatusMoveEvidence, InvParts, Zenon
<1>3. CASE status # intent[i]
  <2>1. EndMove(i, status, "settlement_failed")
    BY <1>1, <1>3, LiveStatuses, Zenon DEF EndMove, StatusMove
  <2>2. CommitNeverRefused'
    BY <1>1, <2>1, FailedMoveCover, Zenon
  <2> QED
    BY <1>2, <2>1, <2>2, AssembleEnd, Zenon
<1>4. CASE status = intent[i]
  <2>1. UNCHANGED <<pairing, negotiation, participant>>
    BY <1>1, <1>4, CloseAgain, Zenon
  <2>2. intent'[i] = intent[i] /\ UNCHANGED <<marketVars, dealVars, assetVars>>
    BY <1>1, <1>4, <2>1 DEF StatusMove, dealVars, ArenaInv, ArenaTypeOK
  <2>3. UniqueTx'
    BY <1>2, InvParts, Zenon DEF UniqueTx
  <2> QED
    BY <1>2, <2>2, <2>3, AssembleLive, Zenon
<1> QED
  BY <1>3, <1>4, Zenon

\* commit_confirmed_inventory
LEMMA CommitStep ==
    ASSUME ArenaInv, ArenaTypeOK', NEW i \in Intents, commit_confirmed_inventory(i)
    PROVE  ArenaInv' /\ \A j \in Intents : Forward(j)
<1>1. /\ StatusMove(i, "inventory_committed") /\ CloseDeal(i, "settled")
      /\ UNCHANGED marketVars
      /\ intent[i] \in {"inventory_committed", "chain_confirmed_uncommitted"}
  BY Zenon DEF commit_confirmed_inventory, StatusMove
<1>2. /\ Evidence(i)' /\ Forward(i) /\ submission' = submission
      /\ \A j \in Intents \ {i} : SameEvidence(j)
  BY <1>1, StatusMoveEvidence, InvParts, Zenon
<1>3. CASE intent[i] = "chain_confirmed_uncommitted"
  <2>1. MoveAssets(i) /\ participant' = ReleasedParties(i)
    BY <1>3, Zenon DEF commit_confirmed_inventory
  <2>2. EndMove(i, "inventory_committed", "settled")
    BY <1>1, <1>3, <2>1, LiveStatuses, Zenon DEF EndMove, StatusMove
  <2>3. CommitNeverRefused'
    BY <2>1, <2>2, CommitMoveCover, Zenon
  <2> QED
    BY <1>2, <2>2, <2>3, AssembleEnd, Zenon
<1>4. CASE intent[i] = "inventory_committed"
  <2>1. UNCHANGED <<assetVars, participant>>
    BY <1>4, Zenon DEF commit_confirmed_inventory
  <2>2. UNCHANGED <<pairing, negotiation>>
    BY <1>1, <1>4, CloseAgain, Zenon
  <2>3. intent'[i] = intent[i] /\ UNCHANGED <<marketVars, dealVars, assetVars>>
    BY <1>1, <1>4, <2>1, <2>2 DEF StatusMove, dealVars, ArenaInv, ArenaTypeOK
  <2>4. UniqueTx'
    BY <1>2, InvParts, Zenon DEF UniqueTx
  <2> QED
    BY <1>2, <2>3, <2>4, AssembleLive, Zenon
<1> QED
  BY <1>1, <1>3, <1>4, Zenon

\* Every transaction keeps the invariant and moves statuses forward.
LEMMA ArenaInvNext ==
    ASSUME ArenaInv, ArenaTypeOK', ArenaNext
    PROVE  ArenaInv' /\ \A j \in Intents : Forward(j)
BY MaterializeStep, CompleteRunStep, AdvanceStep, EngageStep, EndNegotiationStep, AcceptStep,
     ApprovalStep, SubmissionStep, TimeoutStep, ConfirmationStep, FailureStep, CommitStep, Zenon
     DEF ArenaNext

\* The empty market satisfies the invariant.
LEMMA ArenaInvInit == ASSUME ArenaInit, ArenaTypeOK PROVE ArenaInv
<1>1. /\ \A i \in Intents : /\ intent[i] = "none" /\ negotiation[i] = "none" /\ pairing[i] = "none"
                            /\ submission[i] = NoSubmission /\ confirmation[i] = 0
      /\ \A p \in Participants : participant[p] = "active"
  BY Zenon DEF ArenaInit
<1>2. NoSubmission.tx = NoTx
  BY Zenon DEF NoSubmission
<1>3. SlotsHeld /\ CommitNeverRefused /\ Begun
  BY <1>1, LiveStatuses, Zenon DEF SlotsHeld, Holding, CommitNeverRefused, Begun
<1>4. DealRowsAgree
  BY <1>1, LiveStatuses, Zenon DEF DealRowsAgree
<1>5. UniqueTx /\ \A j \in Intents : Evidence(j)
  BY <1>1, <1>2, Zenon DEF UniqueTx, Evidence, Submitted, Confirmed
<1> QED
  BY <1>3, <1>4, <1>5, InvParts, Zenon

\* A step of another component keeps it too.
LEMMA ArenaStutter == ASSUME ArenaInv, UNCHANGED arenaVars PROVE ArenaInv'
<1>1. UNCHANGED <<mode, round, phase, run, slot, negotiation, pairing, participant, cash, holding,
                  intent, approval, submission, confirmation, created>>
  BY Zenon DEF arenaVars, marketVars, dealVars, assetVars, intentVars
<1>2. SlotsHeld' /\ CommitNeverRefused' /\ Started'
  BY <1>1, Zenon DEF ArenaInv, SlotsHeld, Holding, CommitNeverRefused, Covered, Started
<1>3. DealRowsAgree' /\ EvidenceComplete'
  BY <1>1, Zenon DEF ArenaInv, DealRowsAgree, EvidenceComplete
<1>4. ArenaTypeOK'
  BY ArenaTypeStep, Zenon DEF ArenaInv
<1> QED
  BY <1>2, <1>3, <1>4, Zenon DEF ArenaInv

\* The invariant, for every set of deals, participants and rounds.
THEOREM ArenaInvariant == ArenaSpec => []ArenaInv
<1>1. ArenaSpec => []ArenaTypeOK
  BY ArenaTypeCorrect, Zenon
<1>2. ArenaInit /\ ArenaTypeOK => ArenaInv
  BY ArenaInvInit, Zenon
<1>3. ArenaInv /\ ArenaTypeOK' /\ [ArenaNext]_arenaVars => ArenaInv'
  <2> SUFFICES ASSUME ArenaInv, ArenaTypeOK', [ArenaNext]_arenaVars PROVE ArenaInv'
    BY Zenon
  <2>1. CASE ArenaNext
    BY <2>1, ArenaInvNext, Zenon
  <2>2. CASE UNCHANGED arenaVars
    BY <2>2, ArenaStutter, Zenon
  <2> QED
    BY <2>1, <2>2, Zenon
<1> QED
  BY <1>1, <1>2, <1>3, PTL DEF ArenaSpec

-----------------------------------------------------------------------------
(* Theorems *)

\* For every set of deals, participants and rounds: whatever is negotiated or
\* settled belongs to the current round and holds its parties' slots.
THEOREM ArenaSlotsHeld == ArenaSpec => []SlotsHeld
<1>1. ArenaInv => SlotsHeld
  BY Zenon DEF ArenaInv
<1> QED
  BY <1>1, ArenaInvariant, PTL

\* For every set of deals, participants and rounds: the commit of a frozen
\* deal is never refused for missing cash or goods.
THEOREM ArenaCommitNeverRefused == ArenaSpec => []CommitNeverRefused
<1>1. ArenaInv => CommitNeverRefused
  BY Zenon DEF ArenaInv
<1> QED
  BY <1>1, ArenaInvariant, PTL

\* For every set of deals, participants and rounds: pairing, negotiation,
\* participants and intent agree.
THEOREM ArenaRowsAgree == ArenaSpec => []DealRowsAgree
<1>1. ArenaInv => DealRowsAgree
  BY Zenon DEF ArenaInv
<1> QED
  BY <1>1, ArenaInvariant, PTL

\* For every set of deals, participants and rounds: each status rests on its
\* evidence and no transaction pays two deals.
THEOREM ArenaEvidence == ArenaSpec => []EvidenceComplete
<1>1. ArenaInv => EvidenceComplete
  BY Zenon DEF ArenaInv
<1> QED
  BY <1>1, ArenaInvariant, PTL

\* For every set of deals, participants and rounds: statuses only advance and
\* the evidence rows are written once.
THEOREM ArenaForwardOnly == ArenaSpec => ForwardOnly
<1>1. ArenaInv /\ ArenaTypeOK' /\ [ArenaNext]_arenaVars => [\A i \in Intents : Forward(i)]_arenaVars
  BY ArenaInvNext, Zenon
<1>2. ArenaSpec => [][\A i \in Intents : Forward(i)]_arenaVars
  BY <1>1, ArenaInvariant, ArenaTypeCorrect, PTL DEF ArenaSpec
<1> QED
  BY <1>2, Zenon DEF ForwardOnly, Forward

-----------------------------------------------------------------------------
(* The refinement *)

\* Steps that move no intent into or out of a class of statuses, and no asset.
LEMMA ExchangeStutter ==
    ASSUME UNCHANGED assetVars,
           \A j \in Intents : \/ intent'[j] = intent[j]
                              \/ intent[j] \in Live /\ intent'[j] \in Live
    PROVE  UNCHANGED Exchange!exchangeVars
<1>1. \A j \in Intents :
         /\ (intent'[j] \in Live) <=> (intent[j] \in Live)
         /\ (intent'[j] = "inventory_committed") <=> (intent[j] = "inventory_committed")
         /\ (intent'[j] \in {"authorization_failed", "reverted"}) <=>
               (intent[j] \in {"authorization_failed", "reverted"})
  BY LiveStatuses, Zenon
<1>2. cash' = cash /\ holding' = holding
  BY Zenon DEF assetVars
<1>3. /\ {j \in Intents : intent'[j] \in Live} = {j \in Intents : intent[j] \in Live}
      /\ {j \in Intents : intent'[j] = "inventory_committed"}
            = {j \in Intents : intent[j] = "inventory_committed"}
      /\ {j \in Intents : intent'[j] \in {"authorization_failed", "reverted"}}
            = {j \in Intents : intent[j] \in {"authorization_failed", "reverted"}}
  BY <1>1, Zenon
<1> QED
  BY <1>2, <1>3, Zenon DEF Exchange!exchangeVars

\* The freeze is the abstract agreement: its parties are in no pending deal.
LEMMA FreezeAgrees ==
    ASSUME ArenaInv, NEW i \in Intents, negotiation[i] = "active", FreezeIntent(i), UNCHANGED assetVars
    PROVE  Exchange!Agree(i)
<1>1. /\ intent[i] = "none" /\ intent'[i] = "authorization_requested"
      /\ \A j \in Intents \ {i} : intent'[j] = intent[j]
      /\ cash' = cash /\ holding' = holding
  BY OpenHasNoIntent, Zenon DEF ArenaInv, ArenaTypeOK, FreezeIntent, assetVars
<1>2. \A j \in {k \in Intents : intent[k] \in Live} : Parties(i) \cap Parties(j) = {}
  BY <1>1, HoldersDisjoint, LiveStatuses, Zenon DEF ArenaInv, Holding
<1>3. cash[Buyer[i]] >= Amount[i] /\ holding[Seller[i]][Good[i]] >= Quantity[i]
  BY Zenon DEF FreezeIntent, Covered
<1>4. /\ {j \in Intents : intent'[j] \in Live} = {j \in Intents : intent[j] \in Live} \cup {i}
      /\ {j \in Intents : intent'[j] = "inventory_committed"}
            = {j \in Intents : intent[j] = "inventory_committed"}
      /\ {j \in Intents : intent'[j] \in {"authorization_failed", "reverted"}}
            = {j \in Intents : intent[j] \in {"authorization_failed", "reverted"}}
  BY <1>1, LiveStatuses, Zenon
<1>5. i \notin {j \in Intents : intent[j] \in Live}
               \cup {j \in Intents : intent[j] = "inventory_committed"}
               \cup {j \in Intents : intent[j] \in {"authorization_failed", "reverted"}}
  BY <1>1, LiveStatuses, Zenon
<1> QED
  BY <1>1, <1>2, <1>3, <1>4, <1>5, Zenon DEF Exchange!Agree, Exchange!Affordable,
       Exchange!Parties, Parties

\* A failure or a revert is the abstract failure.
LEMMA FailureFails ==
    ASSUME ArenaInv, NEW i \in Intents, NEW status \in {"authorization_failed", "reverted"},
           intent[i] \in Live, intent' = [intent EXCEPT ![i] = status], UNCHANGED assetVars
    PROVE  Exchange!Fail(i)
<1>1. /\ intent'[i] = status /\ \A j \in Intents \ {i} : intent'[j] = intent[j]
      /\ cash' = cash /\ holding' = holding
  BY Zenon DEF ArenaInv, ArenaTypeOK, assetVars
<1>2. /\ {j \in Intents : intent'[j] \in Live} = {j \in Intents : intent[j] \in Live} \ {i}
      /\ {j \in Intents : intent'[j] = "inventory_committed"}
            = {j \in Intents : intent[j] = "inventory_committed"}
      /\ {j \in Intents : intent'[j] \in {"authorization_failed", "reverted"}}
            = {j \in Intents : intent[j] \in {"authorization_failed", "reverted"}} \cup {i}
  BY <1>1, LiveStatuses
<1> QED
  BY <1>1, <1>2, Zenon DEF Exchange!Fail

\* The first commit is the abstract settlement.
LEMMA CommitSettles ==
    ASSUME ArenaInv, NEW i \in Intents, intent[i] = "chain_confirmed_uncommitted",
           intent' = [intent EXCEPT ![i] = "inventory_committed"], Covered(i), MoveAssets(i)
    PROVE  Exchange!Settle(i)
<1>1. intent'[i] = "inventory_committed" /\ \A j \in Intents \ {i} : intent'[j] = intent[j]
  BY Zenon DEF ArenaInv, ArenaTypeOK
<1>2. /\ {j \in Intents : intent'[j] \in Live} = {j \in Intents : intent[j] \in Live} \ {i}
      /\ {j \in Intents : intent'[j] = "inventory_committed"}
            = {j \in Intents : intent[j] = "inventory_committed"} \cup {i}
      /\ {j \in Intents : intent'[j] \in {"authorization_failed", "reverted"}}
            = {j \in Intents : intent[j] \in {"authorization_failed", "reverted"}}
  BY <1>1, LiveStatuses
<1>3. intent[i] \in Live
  BY LiveStatuses, Zenon
<1> QED
  BY <1>2, <1>3, Zenon DEF Exchange!Settle, Exchange!Affordable, Covered, MoveAssets

\* Every step of the settlement rows is a step of the exchange or a stutter.
LEMMA ExchangeStep ==
    ASSUME ArenaInv, ArenaTypeOK', [ArenaNext]_arenaVars
    PROVE  [Exchange!ExchangeNext]_(Exchange!exchangeVars)
<1>1. CASE UNCHANGED <<intent, assetVars>>
  BY <1>1, ExchangeStutter, Zenon
<1>2. CASE UNCHANGED arenaVars
  BY <1>1, <1>2, Zenon DEF arenaVars, intentVars
<1>3. CASE materialize_agent_market_engagements \/ complete_hosted_run \/ advance_round_or_game
  BY <1>1, <1>3, Zenon DEF materialize_agent_market_engagements, complete_hosted_run,
       advance_round_or_game, intentVars
<1>4. ASSUME NEW i \in Intents, Engage(i) \/ EndNegotiation(i)
      PROVE  [Exchange!ExchangeNext]_(Exchange!exchangeVars)
  BY <1>1, <1>4, Zenon DEF Engage, EndNegotiation, intentVars
<1>5. ASSUME NEW i \in Intents, Accept(i)
      PROVE  [Exchange!ExchangeNext]_(Exchange!exchangeVars)
  <2>1. CASE mode = "none"
    BY <1>1, <1>5, <2>1, Zenon DEF Accept, intentVars
  <2>2. CASE mode # "none"
    <3>1. negotiation[i] = "active" /\ FreezeIntent(i) /\ UNCHANGED assetVars
      BY <1>5, <2>2, Zenon DEF Accept
    <3> QED
      BY <3>1, FreezeAgrees, Zenon DEF Exchange!ExchangeNext
  <2> QED
    BY <2>1, <2>2, Zenon
<1>6. ASSUME NEW i \in Intents, NEW source \in ApprovalSources, record_settlement_approval(i, source)
      PROVE  [Exchange!ExchangeNext]_(Exchange!exchangeVars)
  BY <1>1, <1>6, Zenon DEF record_settlement_approval
<1>7. ASSUME NEW i \in Intents, NEW t \in Txs, NEW source \in SubmissionSources,
             record_settlement_submission(i, t, source)
      PROVE  [Exchange!ExchangeNext]_(Exchange!exchangeVars)
  <2>1. /\ \A j \in Intents \ {i} : SameEvidence(j)
        /\ intent'[i] = intent[i] \/
              (intent[i] = "authorization_requested" /\ intent'[i] = "submitted")
    BY <1>7, SubmissionEvidence, InvParts, Zenon
  <2>2. \A j \in Intents : intent'[j] = intent[j] \/ (intent[j] \in Live /\ intent'[j] \in Live)
    BY <2>1, LiveStatuses, Zenon DEF SameEvidence
  <2>3. UNCHANGED assetVars
    BY <1>7, Zenon DEF record_settlement_submission
  <2> QED
    BY <2>2, <2>3, ExchangeStutter, Zenon
<1>8. ASSUME NEW i \in Intents, mark_confirmation_timeout(i)
      PROVE  [Exchange!ExchangeNext]_(Exchange!exchangeVars)
  <2>1. \A j \in Intents : intent'[j] = intent[j] \/ (intent[j] \in Live /\ intent'[j] \in Live)
    BY <1>8, LiveStatuses DEF mark_confirmation_timeout, ArenaInv, ArenaTypeOK
  <2>2. UNCHANGED assetVars
    BY <1>8, Zenon DEF mark_confirmation_timeout
  <2> QED
    BY <2>1, <2>2, ExchangeStutter, Zenon
<1>9. ASSUME NEW i \in Intents, NEW t \in Txs, NEW depth \in 1..MaxDepth,
             record_chain_confirmation(i, t, depth)
      PROVE  [Exchange!ExchangeNext]_(Exchange!exchangeVars)
  <2>1. /\ \A j \in Intents \ {i} : SameEvidence(j)
        /\ \/ intent'[i] = intent[i]
           \/ /\ intent[i] \in {"submitted", "confirmation_timeout"}
              /\ intent'[i] = "chain_confirmed_uncommitted"
    BY <1>9, ConfirmationEvidence, InvParts, Zenon
  <2>2. \A j \in Intents : intent'[j] = intent[j] \/ (intent[j] \in Live /\ intent'[j] \in Live)
    BY <2>1, LiveStatuses, Zenon DEF SameEvidence
  <2>3. UNCHANGED assetVars
    BY <1>9, Zenon DEF record_chain_confirmation
  <2> QED
    BY <2>2, <2>3, ExchangeStutter, Zenon
<1>10. ASSUME NEW i \in Intents, NEW status \in {"authorization_failed", "reverted"},
              intent' = [intent EXCEPT ![i] = status], UNCHANGED assetVars,
              intent[i] = status \/ intent[i] \in Live
       PROVE  [Exchange!ExchangeNext]_(Exchange!exchangeVars)
  <2>1. CASE intent[i] = status
    BY <1>1, <1>10, <2>1, Zenon DEF ArenaInv, ArenaTypeOK
  <2>2. CASE intent[i] \in Live
    BY <1>10, <2>2, FailureFails, Zenon DEF Exchange!ExchangeNext
  <2> QED
    BY <1>10, <2>1, <2>2, Zenon
<1>11. ASSUME NEW i \in Intents, record_automatic_failure(i)
       PROVE  [Exchange!ExchangeNext]_(Exchange!exchangeVars)
  BY <1>10, <1>11, LiveStatuses, Zenon DEF record_automatic_failure, CanRecordFailure
<1>12. ASSUME NEW i \in Intents, NEW t \in Txs, record_chain_reverted(i, t)
       PROVE  [Exchange!ExchangeNext]_(Exchange!exchangeVars)
  BY <1>10, <1>12, LiveStatuses, Zenon DEF record_chain_reverted, CanRecordReverted
<1>13. ASSUME NEW i \in Intents, commit_confirmed_inventory(i)
       PROVE  [Exchange!ExchangeNext]_(Exchange!exchangeVars)
  <2>1. CASE intent[i] = "inventory_committed"
    <3>1. UNCHANGED <<intent, assetVars>>
      <4>1. UNCHANGED assetVars /\ intent' = [intent EXCEPT ![i] = "inventory_committed"]
        BY <1>13, <2>1, Zenon DEF commit_confirmed_inventory
      <4>2. intent \in [Intents -> IntentStatus]
        BY Zenon DEF ArenaInv, ArenaTypeOK
      <4> QED
        BY <2>1, <4>1, <4>2, Zenon
    <3> QED
      BY <1>1, <3>1, Zenon
  <2>2. CASE intent[i] # "inventory_committed"
    <3>1. /\ intent[i] = "chain_confirmed_uncommitted" /\ Covered(i) /\ MoveAssets(i)
          /\ intent' = [intent EXCEPT ![i] = "inventory_committed"]
      BY <1>13, <2>2, Zenon DEF commit_confirmed_inventory
    <3> QED
      BY <3>1, CommitSettles, Zenon DEF Exchange!ExchangeNext
  <2> QED
    BY <2>1, <2>2, Zenon
<1> QED
  BY <1>2, <1>3, <1>4, <1>5, <1>6, <1>7, <1>8, <1>9, <1>11, <1>12, <1>13, Zenon DEF ArenaNext

\* For every set of deals, participants and rounds: the settlement rows
\* implement the atomic exchange.
THEOREM ArenaImplementsExchange == ArenaSpec => ImplementsExchange
<1>1. ArenaInit => Exchange!ExchangeInit
  <2> SUFFICES ASSUME ArenaInit PROVE Exchange!ExchangeInit
    BY Zenon
  <2>1. /\ {j \in Intents : intent[j] \in Live} = {}
        /\ {j \in Intents : intent[j] = "inventory_committed"} = {}
        /\ {j \in Intents : intent[j] \in {"authorization_failed", "reverted"}} = {}
    BY LiveStatuses, Zenon DEF ArenaInit
  <2> QED
    BY <2>1, Zenon DEF ArenaInit, Exchange!ExchangeInit
<1>2. ArenaInv /\ ArenaTypeOK' /\ [ArenaNext]_arenaVars => [Exchange!ExchangeNext]_(Exchange!exchangeVars)
  BY ExchangeStep, Zenon
<1> QED
  BY <1>1, <1>2, ArenaInvariant, ArenaTypeCorrect, PTL
     DEF ArenaSpec, ImplementsExchange, Exchange!ExchangeSpec
=============================================================================
