---------------------------- MODULE DealExchange ----------------------------
(***************************************************************************)
(* What settlement promises the participants, without a database or a      *)
(* chain: a deal is agreed while both parties are free and can cover it,   *)
(* and from then on it is pending until it either settles, which moves the *)
(* cash and the goods in one step, or fails, which moves nothing.          *)
(***************************************************************************)
EXTENDS DealTerms

CONSTANTS InitCash, InitHolding

VARIABLES pending, settled, failed, cash, holding

exchangeVars == <<pending, settled, failed, cash, holding>>

ExchangeInit ==
    /\ pending = {} /\ settled = {} /\ failed = {}
    /\ cash = InitCash
    /\ holding = InitHolding

Affordable(i) ==
    /\ cash[Buyer[i]] >= Amount[i]
    /\ holding[Seller[i]][Good[i]] >= Quantity[i]

Agree(i) ==
    /\ i \notin pending \cup settled \cup failed
    /\ \A j \in pending : Parties(i) \cap Parties(j) = {}
    /\ Affordable(i)
    /\ pending' = pending \cup {i}
    /\ UNCHANGED <<settled, failed, cash, holding>>

Settle(i) ==
    /\ i \in pending
    /\ Affordable(i)
    /\ pending' = pending \ {i}
    /\ settled' = settled \cup {i}
    /\ cash' = [cash EXCEPT ![Buyer[i]] = @ - Amount[i], ![Seller[i]] = @ + Amount[i]]
    /\ holding' = [holding EXCEPT ![Buyer[i]][Good[i]] = @ + Quantity[i],
                                  ![Seller[i]][Good[i]] = @ - Quantity[i]]
    /\ UNCHANGED failed

Fail(i) ==
    /\ i \in pending
    /\ pending' = pending \ {i}
    /\ failed' = failed \cup {i}
    /\ UNCHANGED <<settled, cash, holding>>

ExchangeNext == \E i \in Intents : Agree(i) \/ Settle(i) \/ Fail(i)

ExchangeSpec == ExchangeInit /\ [][ExchangeNext]_exchangeVars
=============================================================================
