SPECIFICATION MCSpec
CONSTANTS
    d1 = d1
    d2 = d2
    d3 = d3
    m1 = m1
    m2 = m2
    buyer = buyer
    sellerA = sellerA
    t1 = t1
    t2 = t2
    u1 = u1
    u2 = u2
    c1 = c1
    c2 = c2
    i1 = i1
    s1 = s1
    n1 = n1
    n2 = n2
    p1 = p1
    a1 = a1
    Intents = {d1, d2, d3}
    Participants = {buyer, sellerA}
    Goods = {"grain"}
    Txs = {t1, t2}
    NoTx = NoTx
    NRounds = 3
    Buyer <- MCBuyer
    Seller <- MCSeller
    Good <- MCGood
    Amount <- MCAmount
    Quantity <- MCQuantity
    RoundOf <- MCRoundOf
    TxIntent <- MCTxIntent
    Total <- MCTotal
    Mandates = {m1, m2}
    NoMandate = NoMandate
    Owner <- MCOwner
    ValidFrom <- MCValidFrom
    ExpiresAt <- MCExpiresAt
    MaxPerPayment <- MCMaxPerPayment
    MaxCumulative <- MCMaxCumulative
    AllowedPayees <- MCAllowedPayees
    SameGameRule = {m2}
    Reasons = {"chain_transaction_reverted", "rejected"}
    NoReason = NoReason
    MaxClock = 2
    MaxCash = 3
    Users <- MCUsers
    NoUser = NoUser
    Browsers <- MCBrowsers
    Invites = {i1}
    NoInvite = NoInvite
    Names = {n1, n2}
    NoName = NoName
    Subjects = {s1}
    NoSubject = NoSubject
    Login <- MCLogin
    Fallback <- MCFallback
    Inventory = {p1}
    NoWallet = NoWallet
    Addresses = {a1}
    NoAddress = NoAddress
    MaxChallenges = 1
SYMMETRY PeopleSymmetry
INVARIANTS
    BudgetAccounts
    WithinBudget
    AccountsExclusive
PROPERTY BoundByProof
CHECK_DEADLOCK FALSE
