SPECIFICATION FairPoolSpec
CONSTANTS
    Worker = {w1, w2, w3}
    Task = {t1, t2}
    NoTask = NoTask
    Main = Main
    Nobody = Nobody
    MinWorkers = 0
    MaxQueue = 3
    Reliable = {w1}
INVARIANTS
    PoolTypeOK
    LockDiscipline
    NeverPopsEmpty
    WorkConserving
PROPERTIES
    StrandedForEver
    ImplementsTaskQueue
    TaskTakenByReliable
\* If no thread could be created, the model's queue fills up and Main stops.
CHECK_DEADLOCK FALSE
