\* One administrator, two requests, one grant, two versions of the file
CONSTANTS
    Users = {u1}
    Requests = {r1, r2}
    Grants = {g1}
    none = none
    Versions = {1, 2}
SPECIFICATION FairSpec
INVARIANTS TypeOK AuditedOnce GrantsRevoked DeliveredIndexed
PROPERTIES RequestsServed
