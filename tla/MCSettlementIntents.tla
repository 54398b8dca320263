------------------------ MODULE MCSettlementIntents ------------------------
(***************************************************************************)
(* Round 1: ann may buy from bob (d1) or from cyd (d2) and can afford one  *)
(* of the two; cyd may sell to dan (d4) instead, so that d1 and d4 may     *)
(* settle side by side while d2 competes with both.  Round 2: cyd buys     *)
(* from ann what only d1 or d2 can have brought (d3).                      *)
(***************************************************************************)
EXTENDS SettlementExchange, FiniteSetsExt

CONSTANTS d1, d2, d3, d4, ann, bob, cyd, dan

MCBuyer == [i \in Intents |-> IF i = d3 THEN cyd ELSE IF i = d4 THEN dan ELSE ann]
MCSeller == [i \in Intents |-> IF i = d1 THEN bob ELSE IF i = d3 THEN ann ELSE cyd]
MCGood == [i \in Intents |-> "grain"]
MCAmount == [i \in Intents |-> IF i = d3 THEN 1 ELSE 2]
MCQuantity == [i \in Intents |-> 1]
MCRoundOf == [i \in Intents |-> IF i = d3 THEN 2 ELSE 1]
MCTxIntent == [t \in Txs |-> d1]
MCOpening == [i \in Intents |-> 1]
MCInitCash == [p \in Participants |-> IF p = ann THEN 3 ELSE IF p = dan THEN 2 ELSE 1]
MCInitHolding == [p \in Participants |-> [g \in Goods |-> IF p = ann THEN 0 ELSE 1]]

\* Gold and goods are neither made nor lost by any sequence of settlements.
AssetsConserved ==
    /\ MapThenSumSet(LAMBDA p : cash[p], Participants)
          = MapThenSumSet(LAMBDA p : InitCash[p], Participants)
    /\ \A g \in Goods :
          MapThenSumSet(LAMBDA p : holding[p][g], Participants)
             = MapThenSumSet(LAMBDA p : InitHolding[p][g], Participants)
=============================================================================
