CONSTANTS
    h1 = h1
    c1 = c1
    o1 = o1
    o2 = o2
    l1 = l1
    l2 = l2
    Hosted <- MCHosted
    Connector <- MCConnector
    Official <- MCOfficial
    Agent <- MCAgent
    Game <- MCGame
    Targets <- MCTargets
    MaxAttempts = 2
    MaxConfig = 2
    MaxAuth <- MCMaxAuth
    Threshold = 3
    Seats = 4
    Rounds = 2
    Learners <- MCLearners
    NoLearner = NoLearner
    Configs = {"first", "second"}
    NoConfig = NoConfig
    Archetype = "conservative"
    MaxGames = 2
    MaxRevisions = 4
    Evidence <- MCEvidence
    Moves <- MCMoves
SPECIFICATION MCSpec
SYMMETRY OfficialSymmetry
INVARIANTS
    HumanInEveryGame
    
    
    StrategyFollowsOwner
    LearnsOnceWithinBounds
PROPERTIES
    ConfigFrozenInGame
    PlayersFixed
