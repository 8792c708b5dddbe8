\* VMStates, Backups, Seeds, Migration, Addresses and APIKeys, one at a time.
SPECIFICATION Spec
CONSTANTS
    VM = {v1, v2}
    Broken = Broken
    StateFaults = {"stop", "action", "save", "stopSaving"}
    MaxStops = 3
    MaxActions = 3
    Backup = {b1, b2}
    Client = {c1, c2}
    Timer = Timer
    BackupsTorn = BackupsTorn
    BackupFaults = {"stop", "stopSaving", "save", "copy", "delete", "reuse", "expire"}
    MaxTime = 2
    MaxRequests = 3
    MaxKills = 1
    Seed = {url, seeder}
    Seeders = {seeder}
    Configs <- Configurations
    Hourly = Hourly
    User = {u1}
    Maker = {m1}
    SeedsTorn = SeedsTorn
    SeedFaults = {"fail", "stop", "save", "stopSaving"}
    MaxVersion = 2
    MaxManual = 2
    MaxCrashes = 1
    MigrationFaults = {"call", "delete", "stop", "backup", "unreachable", "save", "refuse"}
    MaxWrites = 3
    MaxMigrations = 2
    Guest = {g1, g2}
    Address = {a1, a2, a3}
    AddressFaults = {"network", "creation", "restart"}
    MaxCreations = 3
    MaxRestarts = 1
    Key = {k1, k2}
    Comment = {n1, n2}
    Right = {t1}
    Ambiguous = {}
    Guarded = {w1}
    Admin = {o1, o2}
    KeysTorn = KeysTorn
    KeyFaults = {"save", "stop", "stopSaving"}
    MaxEdits = 4
    MaxReloads = 1
INVARIANTS
    TypeOK StatesAreRestored KeptBackupsAreStored  NotReadyIsRetried
    MigratedDataSurvives ServedCopyIsCurrent MigrationKeepsServing VMsHaveLeases
    
CHECK_DEADLOCK FALSE
