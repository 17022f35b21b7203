\* Nothing is lost: channels, buffer and timeouts are never exhausted.  Where
\* they are, MCPipeline has the sizes.
CONSTANTS
    Handler <- AllHandlers
    Capacity = 20
    BusCapacity = 4
    AssemblyTimeout = 2
    MaxPending = 3
    MaxCached = 1
    MaxFutureDrift = 3
    MaxHeight = 2
    MaxTime = 1
    MaxRestarts = 0
SPECIFICATION MCSpec
PROPERTIES AmpleCatchesUp OverdueLeave
\* The bounds on heights and time end every behaviour.
CHECK_DEADLOCK FALSE
