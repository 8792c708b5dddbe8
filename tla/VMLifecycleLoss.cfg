\* Expected to fail: a rebuild whose last call, the deletion of the original, fails
\* after it deleted the disk. MCPartial: rebuilds only, of a VM that has scripts.
SPECIFICATION Spec
CONSTANTS
    MaxRevision = 1
    VM = {u, v, w}
    Backup = {a}
    MaxWrites = 1
    Request = {r}
    Setting <- MCPartial
    None = None
INVARIANT RebuildKeepsData
CHECK_DEADLOCK FALSE
