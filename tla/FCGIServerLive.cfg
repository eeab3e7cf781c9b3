\* Two connections, so that the queue of one place can be full for the second, and
\* two endpoint threads: at a stop request one is perhaps blocked in accept() and
\* the other at work.
SPECIFICATION LiveSpec
CONSTANTS
    Threads = {h1, h2}
    Requests = {r1, r2}
    Blank = Blank
    None = None
    PoolThreads = 1
    QueueLength = 1
    MaxStops = 1
PROPERTIES
    StopEndsServer
    AnsweredOrStopped
