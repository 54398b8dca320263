-------------------------- MODULE MCAgentMarketRound --------------------------
(***************************************************************************)
(* A small instance of AgentMarketRound for TLC: two buyers after one      *)
(* seller, or one buyer with two sellers to try.                           *)
(***************************************************************************)
EXTENDS AgentMarketRound, TLC

CONSTANTS p1, p2, p3, c1

MCWants == LET buy == [side |-> "buy", limit |-> 1]
               sell == [side |-> "sell", limit |-> 1]
           IN  (p1 :> {buy}) @@ (p2 :> {buy, sell}) @@ (p3 :> {sell})
MCBids == LET buy(limit) == [side |-> "buy", limit |-> limit]
              sell(limit) == [side |-> "sell", limit |-> limit]
          IN  (p1 :> {buy(1), buy(NoLimit)}) @@ (p2 :> {buy(2), sell(1)}) @@ (p3 :> {sell(2), sell(NoLimit)})
=============================================================================
