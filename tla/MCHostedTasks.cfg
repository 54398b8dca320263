SPECIFICATION FairSpec
CONSTANTS
    t1 = t1
    t2 = t2
    a1 = a1
    w1 = w1
    s1 = s1
    s2 = s2
    Agents = {a1}
    Workers = {w1}
    NoWorker = NoWorker
    NoTask = NoTask
    MaxInflight = 1
    Tasks = {t1, t2}
    AgentOf <- MCAgentOf
    StageOf <- MCStageOf
    Slots = {s1, s2}
    WorkerOf <- MCWorkerOf
INVARIANTS NoBlindRepeat SuccessIsBacked MemoryLearnsApplied NoLessonLost
PROPERTIES FirstResultWins EveryTaskAnswered
CHECK_DEADLOCK FALSE
