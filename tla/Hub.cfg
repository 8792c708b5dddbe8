\* A controller that reads the VM database first, mulch log, and a goroutine that logs
\* and saves; streams broken at any time. The hub may block for good.
SPECIFICATION FairSpec
CONSTANTS
    Stream = {a, b}
    Looker = {a}
    Follower = {b}
    Logger = {v}
    Saver = {v}
    Topic = {}
    Tracing = {a, b}
    Trace = {TRUE}
    All = All
    None = None
PROPERTIES BroadcastReturns LockReleased
CHECK_DEADLOCK FALSE
