-------------------------- MODULE SettlementExchange --------------------------
(***************************************************************************)
(* The Arena's settlement rows as an implementation of the atomic exchange *)
(* of DealExchange.                                                        *)
(***************************************************************************)
EXTENDS SettlementIntents

\* The settlement rows implement the atomic exchange: a deal settles once or
\* fails once, and cash and goods move only in the step that settles it.
Exchange == INSTANCE DealExchange WITH
    pending <- {i \in Intents : intent[i] \in Live},
    settled <- {i \in Intents : intent[i] = "inventory_committed"},
    failed  <- {i \in Intents : intent[i] \in {"authorization_failed", "reverted"}}

ImplementsExchange == Exchange!ExchangeSpec
=============================================================================
