\* One request at a time, on a sound disk and on one that fails, with restarts between
\* any two steps. A daemon that cannot load its database file exits for good: deadlock
\* is not checked.
SPECIFICATION Spec
CONSTANTS
    Name = {web, sql}
    MaxRevision = 1
    VM = {v1, v2}
    d1 = d1
    pub = pub
    Domain <- MCDomain
    PublicPort <- MCPublicPort
    Config <- MCConfig
    Blank <- MCBlank
    Request = {r1}
    Disk = {"sound", "failing"}
    None = None
    Corrupt = Corrupt
SYMMETRY Symmetry
INVARIANTS TypeOK NoActiveConflict FilesCurrent
PROPERTIES KeepsServing ImplementsRegistry
CHECK_DEADLOCK FALSE
