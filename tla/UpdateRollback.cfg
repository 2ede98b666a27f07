\* A release with a migration never becomes healthy; no command fails
CONSTANTS
    backend = backend
    Services = {backend, frontend}
    MaxRelease = 2
    Migrations = {2}
    Broken = {2}
    BackupIds = {b1, b2, b3, b4, b5}
    Retention = 1
    MaxClock = 1
    MaxFaults = 0
    Operators = {}
SPECIFICATION Spec
INVARIANT RollbackSucceeds
