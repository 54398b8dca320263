SPECIFICATION ArenaSpec
CONSTANTS
    d1 = d1
    d2 = d2
    d3 = d3
    d4 = d4
    ann = ann
    bob = bob
    cyd = cyd
    dan = dan
    Intents = {d1, d2, d3, d4}
    Participants = {ann, bob, cyd, dan}
    Goods = {"grain"}
    Txs = {t1, t2}
    NoTx = NoTx
    NRounds = 2
    Buyer <- MCBuyer
    Seller <- MCSeller
    Good <- MCGood
    Amount <- MCAmount
    Quantity <- MCQuantity
    RoundOf <- MCRoundOf
    TxIntent <- MCTxIntent
    Free = Free
    Modes = {"none", "single_eip3009"}
    RequiredConfirmations = 2
    MaxDepth = 3
    Opening <- MCOpening
    InitCash <- MCInitCash
    InitHolding <- MCInitHolding
INVARIANTS
    SlotsHeld
    CommitNeverRefused
    DealRowsAgree
    AssetsConserved
PROPERTIES
    ImplementsExchange
CHECK_DEADLOCK FALSE
