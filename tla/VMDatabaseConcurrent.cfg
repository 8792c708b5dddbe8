\* Two requests interleaved in any way, with restarts. Two requests may leave a
\* conflict in the database file, from which mulchd does not start: deadlock is
\* not checked.
SPECIFICATION Spec
CONSTANTS
    Name = {web, sql}
    MaxRevision = 1
    VM = {v1, v2, v3}
    d1 = d1
    pub = pub
    Domain <- MCDomain
    PublicPort <- MCPublicPort
    Config <- MCConfigWeb
    Blank <- MCBlank
    Request = {r1, r2}
    Disk = {"sound"}
    None = None
    Corrupt = Corrupt
SYMMETRY Symmetry
INVARIANTS OneActivePerName Durable
CHECK_DEADLOCK FALSE
