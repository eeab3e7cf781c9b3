SPECIFICATION Spec
CONSTANTS
    Threads = {h1, h2}
    Requests = {r1, r2}
    Blank = Blank
    None = None
    PoolThreads = 1
    QueueLength = 1
    MaxStops = 1
SYMMETRY Symmetry
PROPERTIES
    DestructorSafe
