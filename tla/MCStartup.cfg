\* All dependency graphs over three components, and configurations in which
\* each kind of mistake and each kind of limit occurs.  A process that has ended
\* rests, one with an endless variable too.
CONSTANTS
  N = 3
  Configs <- MCConfigs
  Requests <- MCRequests
  Variables = {"$a", "$b"}
  MaxTasks = 4
  Modulus = 16
  MaxTurns = 6
SPECIFICATION SSpec
INVARIANTS TypeOK DependenciesAlive LoadedOnce UpComplete DispatchAsConfigured CodeMapped
PROPERTY StartEnds
CHECK_DEADLOCK FALSE
