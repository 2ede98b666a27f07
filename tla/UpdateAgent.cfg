\* Three releases, the second never healthy, the last with a migration; two faults
CONSTANTS
    backend = backend
    Services = {backend, frontend}
    MaxRelease = 3
    Migrations = {3}
    Broken = {2}
    BackupIds = {b1, b2, b3, b4, b5}
    Retention = 1
    MaxClock = 2
    MaxFaults = 2
    Operators = {"fetch", "edit"}
SPECIFICATION FairSpec
INVARIANTS TypeOK RollbackPoint OutcomeTrue BackupKept
PROPERTIES OperationsEnd
