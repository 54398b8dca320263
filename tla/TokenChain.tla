----------------------------- MODULE TokenChain -----------------------------
(***************************************************************************)
(* What happens outside the databases: the facilitator relays that turn a  *)
(* /settle request into a transaction, and the token contract, which       *)
(* honours the authorization of an intent once (its nonce is the intent    *)
(* hash).  A request outlives the HTTP call that sent it: the client may   *)
(* give up while the relay is still going to broadcast.                    *)
(***************************************************************************)
EXTENDS DealTerms

CONSTANTS
    Procs,      \* the processes that call the facilitator
    Faults      \* the failures a run admits

ASSUME FaultsAssumption ==
    Faults \subseteq {"timeout", "relay_down", "refuse", "revert", "sign", "crash", "stall",
                "rpc"}

VARIABLES
    chain,      \* chain[t]: none, pending, success or reverted
    relay       \* the requests a relay has yet to broadcast: <<process, intent>>

chainVars == <<chain, relay>>

ChainInit ==
    /\ chain = [t \in Txs |-> "none"]
    /\ relay = {}

\* authorizationState(payer, nonce) of the token contract.
Paid(i) == \E t \in Txs : TxIntent[t] = i /\ chain[t] = "success"

\* What /verify, and /settle before it broadcasts, may answer: a used nonce is
\* always refused, an unused one may be (balance, expiry).
VerifyAnswers(i) == (IF Paid(i) THEN {} ELSE {TRUE}) \cup
                    (IF Paid(i) \/ "refuse" \in Faults THEN {FALSE} ELSE {})

Send(p, i) == relay' = relay \cup {<<p, i>>} /\ UNCHANGED chain

\* The relay drops the request: answered 400 after its own verification
\* (Refuse), or lost with the relay (Drop).
Refuse(p, i) ==
    /\ <<p, i>> \in relay
    /\ FALSE \in VerifyAnswers(i)
    /\ relay' = relay \ {<<p, i>>}
    /\ UNCHANGED chain

Drop(p, i) ==
    /\ "relay_down" \in Faults
    /\ <<p, i>> \in relay
    /\ relay' = relay \ {<<p, i>>}
    /\ UNCHANGED chain

\* The node accepts the relay's transaction, which is pending from then on.
Broadcast(p, i, t) ==
    /\ <<p, i>> \in relay
    /\ TRUE \in VerifyAnswers(i)
    /\ TxIntent[t] = i
    /\ chain[t] = "none"
    /\ chain' = [chain EXCEPT ![t] = "pending"]
    /\ relay' = relay \ {<<p, i>>}

\* transferWithAuthorization: the second use of a nonce reverts.
Mine(t) ==
    /\ chain[t] = "pending"
    /\ \E outcome \in (IF Paid(TxIntent[t]) THEN {} ELSE {"success"}) \cup
                      (IF Paid(TxIntent[t]) \/ "revert" \in Faults THEN {"reverted"} ELSE {}) :
          chain' = [chain EXCEPT ![t] = outcome]
    /\ UNCHANGED relay
=============================================================================
