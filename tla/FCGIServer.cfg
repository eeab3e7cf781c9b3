\* Two endpoint threads and three connections on a pool of one worker and one
\* place, so that the queue is full for the third; two stop requests, so that
\* the second meets a server that is stopping.
SPECIFICATION Spec
CONSTANTS
    Threads = {h1, h2}
    Requests = {r1, r2, r3}
    Blank = Blank
    None = None
    PoolThreads = 1
    QueueLength = 1
    MaxStops = 2
SYMMETRY Symmetry
INVARIANTS
    TypeOK
    BusyCountExact
    StopThreadNeverThrows
    SingleUser
PROPERTIES
    ClosedAnswered
