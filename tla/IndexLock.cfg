\* Two workers over PostgreSQL, two handlers in one of them
CONSTANTS
    h1 = h1
    h2 = h2
    h3 = h3
    w1 = w1
    w2 = w2
    Handlers = {h1, h2, h3}
    Workers = {w1, w2}
    WorkerOf <- TwoAndOne
    PostgreSQL = TRUE
SPECIFICATION Spec
INVARIANTS LockMatchesHolders
PROPERTIES AccessSpec
