\* The connection to PostgreSQL is lost while it commits.
CONSTANTS
    t1 = t1
    t2 = t2
    c1 = c1
    c2 = c2
    Tasks = {t1}
    Handlers = {h1, h2}
    Paths = {p1, p2}
    Contents = {c1}
    Size <- UnitSize
    Mode <- AgentMode
    Manifest <- NoManifest
    MaxFileSize = 2
    MaxFiles = 2
    MaxTotal = 3
    MaxScpWrites = 0
    MaxExternal = 0
    MaxFailures = 1
    Events = {"lost_commit"}
    Nothing = Nothing
    Partial = Partial
    External = External
SYMMETRY HandlerSymmetry
SPECIFICATION Spec
INVARIANTS RecordsBacked
