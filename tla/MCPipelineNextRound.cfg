SPECIFICATION FairPipelineSpec
CONSTANTS
    d1 = d1
    d2 = d2
    m1 = m1
    m2 = m2
    ann = ann
    bob = bob
    cyd = cyd
    dan = dan
    s1 = s1
    s2 = s2
    c1 = c1
    t1 = t1
    t2 = t2
    t3 = t3
    Intents = {d1, d2}
    Participants = {ann, bob}
    Goods = {"grain"}
    Txs = {t1, t3}
    NoTx = NoTx
    NRounds = 2
    Buyer <- MCSameBuyer
    Seller <- MCSameSeller
    Good <- MCGood
    Amount <- MCAmount
    Quantity <- MCQuantity
    RoundOf <- MCNextRound
    TxIntent <- MCTxIntent
    Free = Free
    Modes = {"single_eip3009"}
    RequiredConfirmations = 1
    MaxDepth = 1
    Opening <- MCOpening
    InitCash <- MCTwoCash
    InitHolding <- MCTwoHolding
    Total <- MCTotal
    Mandates = {m1}
    NoMandate = NoMandate
    Owner <- MCOwner
    ValidFrom <- MCValidFrom
    ExpiresAt <- MCExpiresAt
    MaxPerPayment <- MCMaxPerPayment
    MaxCumulative <- MCTwoPayments
    AllowedPayees <- MCAllowedPayees
    SameGameRule = {m1}
    Reasons = {"facilitator_verification_rejected", "facilitator_unreachable", "facilitator_rejected", "payment_pre_submission_failed", "automatic_settlement_pre_submission_failed", "chain_transaction_reverted"}
    NoReason = NoReason
    MaxClock = 0
    MaxCash = 1
    Workers = {s1}
    NoWorker = NoWorker
    NoIntent = NoIntent
    Procs = {s1}
    Callers = {}
    Faults = {}
    InitialMandates = {m1}
PROPERTY DealsEnd
