CONSTANTS
    first = first
    Users = {first, a}
    Requests = {r1, r2}
    Invitations = {i1, i2}
    Tokens = {t1}
    none = none
    Starts = {{}, {first, a}}
    Unhashed = {}
    SharedPassword = FALSE
    MaxRaises = 2
SPECIFICATION Spec
SYMMETRY Symmetry
INVARIANTS TypeOK SessionsEnd InvitationsFit OwnerStays TokensRevoked
