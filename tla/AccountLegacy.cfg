\* An instance of an older version: an account without a password hash, and the shared password.
CONSTANTS
    first = first
    Users = {first, a}
    Requests = {r1, r2}
    Invitations = {i1}
    Tokens = {t1}
    none = none
    Starts = {{first, a}}
    Unhashed = {a}
    SharedPassword = TRUE
    MaxRaises = 2
SPECIFICATION Spec
INVARIANTS SessionsEnd
