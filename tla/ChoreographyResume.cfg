\* A restart of a node that has announced stored blocks.
CONSTANTS
    Handler <- CoreHandler
    Capacity = 8
    BusCapacity = 2
    AssemblyTimeout = 3
    MaxPending = 1
    MaxCached = 1
    MaxFutureDrift = 1
    MaxHeight = 2
    MaxTime = 2
    MaxRestarts = 1
SPECIFICATION Spec
INVARIANT ResumesFromLastBlock
\* The bounds on heights and time end every behaviour.
CHECK_DEADLOCK FALSE
