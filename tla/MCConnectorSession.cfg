CONSTANTS
    w1 = w1
    w2 = w2
    o1 = o1
    u1 = u1
    b1 = b1
    b2 = b2
    k1 = k1
    k2 = k2
    NoWorker = NoWorker
    Workers <- MCWorkers
    MaxSockets = 2
    MaxIncarnations = 2
    MaxFaults = 1
    MaxSequence = 4
    Owners = {o1}
    Bindings = {b1, b2}
    BindingOwner <- MCBindingOwner
    Arenas = {"game"}
    Keys = {k1, k2}
    DisplayNames = {"binding", "mine"}
    WithWallet = {o1}
    Others = {u1}
    MaxParticipants = 1
SYMMETRY WorkerSymmetry
SPECIFICATION MCSpec
CHECK_DEADLOCK FALSE
INVARIANTS
    ResultsReachArena
    RunOnce
    SessionNeverStale
    
    RepliesMatch
