\* A VM that is created while another request starts it, and calls at any time.
\* The hub may block for good.
SPECIFICATION FairSpec
CONSTANTS
    build = build
    start = start
    s1 = s1
    Client = {build, start}
    Builder = {build}
    Secret = {s1}
    SecretOf <- MCSecretOfShared
    Caller = {k1, k2, k3}
    None = None
INVARIANTS NeverPanics StarterHears
PROPERTIES UnregisterReturns BroadcastReturns
CHECK_DEADLOCK FALSE
