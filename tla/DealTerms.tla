----------------------------- MODULE DealTerms -----------------------------
(***************************************************************************)
(* The frozen terms of the deals of one Game: what a SettlementIntent row  *)
(* and its SettlementTerms carry once a negotiation has been accepted.     *)
(* Every module of the settlement path reads them and none changes them.   *)
(*                                                                         *)
(* An intent stands for its negotiation and its pairing too: the three     *)
(* rows are one to one (UNIQUE pairing_id and negotiation_id in migrations *)
(* 007 and 009).  A participant stands for its user, its wallet and its    *)
(* settlement account.                                                     *)
(***************************************************************************)
EXTENDS Integers, FiniteSets

CONSTANTS
    Intents,        \* settlement_intent_id
    Participants,   \* game_participant_id
    Goods,          \* good_id
    Txs,            \* transaction hashes the chain may come to hold
    NoTx,           \* the NULL tx_hash
    NRounds,        \* round_count of the Game
    Buyer,          \* Buyer[i]: buyer_participant_id
    Seller,         \* Seller[i]: seller_participant_id
    Good,           \* Good[i]: good_id
    Amount,         \* Amount[i]: amount_atomic, the accepted price times quantity
    Quantity,       \* Quantity[i]: quantity
    RoundOf,        \* RoundOf[i]: index of the round the deal belongs to
    TxIntent        \* TxIntent[t]: the intent whose authorization t carries

Parties(i) == {Buyer[i], Seller[i]}

ASSUME TermsAssumption ==
    /\ NRounds \in Nat \ {0}
    /\ Buyer \in [Intents -> Participants]
    /\ Seller \in [Intents -> Participants]
    /\ Good \in [Intents -> Goods]
    /\ Amount \in [Intents -> Nat \ {0}]
    /\ Quantity \in [Intents -> Nat \ {0}]
    /\ RoundOf \in [Intents -> 1..NRounds]
    /\ TxIntent \in [Txs -> Intents]
    /\ NoTx \notin Txs

\* CHECK (buyer_participant_id <> seller_participant_id), migration 007.
ASSUME TwoPartiesAssumption == \A i \in Intents : Buyer[i] # Seller[i]
=============================================================================
