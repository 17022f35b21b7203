\* Channels, buffer and caches that overflow, timeouts that fire, a restart at any point.
CONSTANTS
    Handler <- AllHandlers
    Capacity = 3
    BusCapacity = 1
    AssemblyTimeout = 0
    MaxPending = 1
    MaxCached = 1
    MaxFutureDrift = 0
    MaxHeight = 2
    MaxTime = 2
    MaxRestarts = 1
SPECIFICATION Spec
INVARIANTS
    OnlyAssembledGoesOn
    StoresAreCounted
PROPERTY ImplementsLifecycle
VIEW WithoutOrdering
\* The bounds on heights and time end every behaviour.
CHECK_DEADLOCK FALSE
