\* Two workers, one of which may be stuck in its handler for ever, and two
\* producers that race for the places of a queue that can fill up.  What holds
\* of any number of them is proved in ThreadPoolProofs.
SPECIFICATION LiveSpec
CONSTANTS
    Workers = {w1, w2}
    Producers = {p1, p2}
    Tasks = {t1, t2, t3}
    NoTask = NoTask
    QueueLength = 2
INVARIANTS
    TypeOK
    BusyExact
    Conservation
    NoLostWakeup
PROPERTIES
    JoinIsFinal
    RefinesQueue
    PickedUp
    StopJoins
