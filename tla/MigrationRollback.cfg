\* The backup of the source fails.
SPECIFICATION MigrationSpec
CONSTANTS
    MigrationFaults = {"backup"}
    MaxWrites = 1
    MaxMigrations = 1
INVARIANT SourceIsReactivated
