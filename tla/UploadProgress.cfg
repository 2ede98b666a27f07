\* Two HTTP tasks that are written, cancelled, finalized and swept by requests that wait for row locks.
CONSTANTS
    t1 = t1
    t2 = t2
    c1 = c1
    c2 = c2
    Tasks = {t1, t2}
    Handlers = {h1, h2}
    Paths = {p1}
    Contents = {c1}
    Size <- UnitSize
    Mode <- AgentMode
    Manifest <- NoManifest
    MaxFileSize = 2
    MaxFiles = 2
    MaxTotal = 3
    MaxScpWrites = 0
    MaxExternal = 0
    MaxFailures = 0
    Events = {"expire"}
    Nothing = Nothing
    Partial = Partial
    External = External

SPECIFICATION FairSpec
PROPERTIES RequestsAnswered
