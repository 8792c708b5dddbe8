\* Two servers, one with two users; three changes, or two with faults or clocks
\* that differ.  Nothing moves once the changes are made and spread.
CONSTANTS
    p1 = p1
    p2 = p2
    p3 = p3
    r1 = r1
    r2 = r2
    r3 = r3
    Peer = {p1, p2}
    Key = {k1}
    Request = {r1, r2, r3}
    Home <- HomeTwo
    MaxStamp = 3
    None = None
    Torn = Torn
    Settings <- SettingsAll
SPECIFICATION Spec
CHECK_DEADLOCK FALSE
INVARIANTS
    AcknowledgedKept
    Converged
    NoDeadlock
PROPERTIES
    ImplementsRegister
