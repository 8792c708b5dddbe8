\* HTTPProxy, PortServer and ProxyChain, one at a time.
SPECIFICATION Spec
CONSTANTS
    Request = {r1, r2, r3}
    Address = {i1}
    Vip = {}
    Host = {"h"}
    DomainFiles <- Redirection
    MaxSlots = 2
    Burst = 1
    MaxDelay = 1
    MaxLoads = 2
    MaxEntries = 2
    Client = {a, b}
    a = a
    b = b
    Star = Star
    Conn = {c1}
    PortFiles <- Forwards
    MaxReloads = 3
    NoPort = NoPort
    Nobody = Nobody
    Child = {x1, x2}
    Domain = {d1, d2}
    Broken = Broken
    Failures = {"exit", "save", "lost"}
    MaxChanges = 3
    MaxFailures = 2
INVARIANTS TypeOK SlotsAreHeld EstablishedAreAllowed ServesLoadedFile RegisteredIsRouted
CHECK_DEADLOCK FALSE
