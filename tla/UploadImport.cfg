\* An HTTP task of one file and an scp task into one asset, a scan and somebody writing into the archive.
CONSTANTS
    t1 = t1
    t2 = t2
    c1 = c1
    c2 = c2
    Tasks = {t1, t2}
    Handlers = {h1, h2}
    Paths = {p1, p2}
    Contents = {c1}
    Size <- UnitSize
    Mode <- MixedMode
    Manifest <- OneFile
    MaxFileSize = 2
    MaxFiles = 2
    MaxTotal = 3
    MaxScpWrites = 2
    MaxExternal = 1
    MaxFailures = 1
    Events = {"scan"}
    Nothing = Nothing
    Partial = Partial
    External = External
SYMMETRY HandlerPathSymmetry
SPECIFICATION Spec
INVARIANTS RecordsBacked ContentOnce NothingLeftBehind ScanSeesCommitted
