-------------------------- MODULE MCPaymentLedger --------------------------
(***************************************************************************)
(* What a user may spend, and who the user is.  Half of the behaviours     *)
(* follow PaymentLedger: three deals of one buyer in three rounds, under   *)
(* two mandates, the second of which can only be created once the first is *)
(* revoked or has expired; the first is too small for all three deals.     *)
(* The others follow Accounts: two browsers and two users, where the login *)
(* of a GitHub account and its fallback name are names that others may     *)
(* choose.  The ledger's rows name a user that Accounts never removes, so  *)
(* TLC explores the two side by side.                                      *)
(***************************************************************************)
EXTENDS PaymentLedger, Accounts, FiniteSetsExt, TLC

CONSTANTS d1, d2, d3, m1, m2, buyer, sellerA, t1, t2, u1, u2, c1, c2, i1, s1, n1, n2, p1, a1

VARIABLE half

MCBuyer == [i \in Intents |-> buyer]
MCSeller == [i \in Intents |-> sellerA]
MCGood == [i \in Intents |-> "grain"]
MCAmount == [i \in Intents |-> IF i = d3 THEN 2 ELSE 1]
MCQuantity == [i \in Intents |-> 1]
MCRoundOf == [i \in Intents |-> IF i = d1 THEN 1 ELSE IF i = d2 THEN 2 ELSE 3]
MCTxIntent == [t \in Txs |-> IF t = t1 THEN d1 ELSE d2]

MCTotal == [S \in SUBSET Intents |-> MapThenSumSet(LAMBDA i : MCAmount[i], S)]

MCOwner == [m \in Mandates |-> buyer]
MCValidFrom == [m \in Mandates |-> 0]
MCExpiresAt == [m \in Mandates |-> IF m = m1 THEN 1 ELSE 2]
MCMaxPerPayment == [m \in Mandates |-> 2]
MCMaxCumulative == [m \in Mandates |-> IF m = m1 THEN 2 ELSE 3]
MCAllowedPayees == [m \in Mandates |-> IF m = m1 THEN {sellerA} ELSE {}]

MCLogin == [s \in Subjects |-> n1]
MCFallback == [s \in Subjects |-> n2]
MCUsers == {u1, u2}
MCBrowsers == {c1, c2}
PeopleSymmetry == Permutations(MCUsers) \cup Permutations(MCBrowsers)

MCInit == LedgerInit /\ AccountsInit /\ half \in {"ledger", "accounts"}
MCNext == /\ UNCHANGED half
          /\ \/ half = "ledger" /\ LedgerNext /\ UNCHANGED accountVars
             \/ half = "accounts" /\ AccountsNext /\ UNCHANGED <<mandate, reservation, clock>>
MCSpec == MCInit /\ [][MCNext]_<<mandate, reservation, clock, accountVars, half>>
=============================================================================
