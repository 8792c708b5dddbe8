\* "The backup will never expire": one backup, one user, one restart of mulchd.
SPECIFICATION BackupsSpec
CONSTANTS
    Backup = {b1}
    Client = {c1}
    Timer = Timer
    BackupsTorn = BackupsTorn
    BackupFaults = {"stop", "expire"}
    MaxTime = 2
    MaxRequests = 2
    MaxKills = 1
INVARIANT ExpirationIsKept
