------------------------ MODULE MCSettlementPipeline ------------------------
(***************************************************************************)
(* Two deals of one round between disjoint pairs of players, paid by one   *)
(* facilitator account.                                                    *)
(***************************************************************************)
EXTENDS SettlementPipeline, TLC

LOCAL INSTANCE SequencesExt

CONSTANTS d1, d2, m1, m2, ann, bob, cyd, dan, s1, s2, c1, t1, t2, t3

MCBuyer == [i \in Intents |-> IF i = d1 THEN ann ELSE cyd]
MCSeller == [i \in Intents |-> IF i = d1 THEN bob ELSE dan]
MCGood == [i \in Intents |-> "grain"]
MCAmount == [i \in Intents |-> 1]
MCQuantity == [i \in Intents |-> 1]
MCRoundOf == [i \in Intents |-> 1]
MCTxIntent == [t \in Txs |-> IF t = t3 THEN d2 ELSE d1]
MCTotal == [S \in SUBSET Intents |-> Cardinality(S)]
MCOpening == [i \in Intents |-> 1]
MCInitCash == [p \in Participants |-> 1]
MCInitHolding == [p \in Participants |-> [g \in Goods |-> 1]]
MCOwner == [m \in Mandates |-> IF m = m1 THEN ann ELSE cyd]
MCValidFrom == [m \in Mandates |-> 0]
MCExpiresAt == [m \in Mandates |-> 1]
MCMaxPerPayment == [m \in Mandates |-> 1]
MCMaxCumulative == [m \in Mandates |-> 1]
MCAllowedPayees == [m \in Mandates |-> {}]

\* The same buyer and seller deal again in the next round.
MCSameBuyer == [i \in Intents |-> ann]
MCSameSeller == [i \in Intents |-> bob]
MCNextRound == [i \in Intents |-> IF i = d1 THEN 1 ELSE 2]
MCTwoCash == [p \in Participants |-> 2]
MCTwoHolding == [p \in Participants |-> [g \in Goods |-> 2]]
MCTwoPayments == [m \in Mandates |-> 2]

WorkerSymmetry == Permutations(Workers)
\* The round's negotiations are over and every deal of the Game is frozen.
FrozenInit ==
    /\ mandate = [m \in Mandates |-> WithStatus(NoMandateRow, "active")]
    /\ reservation = [i \in Intents |-> NoReservation]
    /\ clock = 0
    /\ mode = "single_eip3009"
    /\ round = 1 /\ phase = "settle" /\ run = "completed"
    /\ slot = [p \in Participants |-> CHOOSE i \in Intents : p \in Parties(i)]
    /\ negotiation = [i \in Intents |-> "accepted_pending_settlement"]
    /\ pairing = [i \in Intents |-> "settling"]
    /\ intent = [i \in Intents |-> "authorization_requested"]
    /\ approval = [i \in Intents |-> "none"]
    /\ submission = [i \in Intents |-> NoSubmission]
    /\ confirmation = [i \in Intents |-> 0]
    /\ participant = [p \in Participants |-> "settling"]
    /\ cash = InitCash
    /\ holding = InitHolding
    /\ created = SetToSeq(Intents)
    /\ FenceInit
    /\ ChainInit
    /\ proc = [p \in Procs |-> Idle]
    /\ reader = ReaderIdle

FrozenSpec == FrozenInit /\ [][SettlementNext]_vars
SettlementSpec == FrozenSpec /\ PipelineFairness
=============================================================================
