SPECIFICATION FairHttpSpec
CONSTANTS
    Worker = {w1, w2}
    Task <- SockTasks
    NoTask = NoTask
    Main = Main
    Nobody = Nobody
    MinWorkers = 1
    MaxQueue = 2
    Conn = {c1, c2}
    Fd <- SomeFds
    BadSock <- MinusOne
    Backlog = 2
    MaxFailures = 1
INVARIANTS
    HttpTypeOK
    OneHandlerPerConnection
    DescriptorsAccounted
PROPERTY
    EveryConnectionServed
\* The process may exit at start-up.
CHECK_DEADLOCK FALSE
