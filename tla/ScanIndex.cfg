\* One path in an asset directory and one outside, two claims
CONSTANTS
    p1 = p1
    p2 = p2
    a1 = a1
    a2 = a2
    Paths = {p1, p2}
    Assets = {a1, a2}
    SlugOf <- FirstInDirectory
    Claimers = {c1, c2}
    MaxVersion = 3
    Events = {"skip"}
    Nothing = Nothing
SYMMETRY ClaimerSymmetry
SPECIFICATION Spec
INVARIANTS TypeOK ChecksumFresh SettledIndex
PROPERTIES ClaimFinal ClaimOwns
