\* Revisions 0 and 1 of a VM (the original and the rebuilt one), one backup, one write
\* of the service. Three VM objects: with two, a rebuild leaves none for a creation
\* that overlaps it. MCSetting lists the circumstances. Deadlock: where
\* creations are not requested, nothing is left to do once the VM is deleted.
SPECIFICATION Spec
CONSTANTS
    MaxRevision = 1
    VM = {u, v, w}
    Backup = {a}
    MaxWrites = 1
    Request = {r, q}
    Setting <- MCSetting
    None = None
SYMMETRY Symmetry
INVARIANTS TypeOK ServedDataIsCurrent DataSurvives ServiceReturns NoOrphans NoStuckOperation BackupsAreStored
CHECK_DEADLOCK FALSE
