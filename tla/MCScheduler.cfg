CONSTANTS
    Null = Null
    Task = {t1, t2, t3, m}
    Main = m
    Slice = 2
SPECIFICATION FairSpec
INVARIANTS QueuesSound CurrentRuns ContextsOwn
PROPERTIES ImplementsRoundRobin EveryTaskRuns
