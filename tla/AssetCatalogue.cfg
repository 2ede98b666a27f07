\* Two assets that are edited, two imports of two more, two requests
CONSTANTS
    doi = doi
    Assets = {1, 2, 3, 4}
    Present = {1, 2}
    Versioned = {1}
    Requests = {r1, r2}
    Identities = {doi}
    Tags = {1, 2}
    Batches <- TwoBatches
    Edits <- SomeEdits
    Versions = {v1, v2}
    none = none
SPECIFICATION Spec
SYMMETRY Symmetry
INVARIANTS TypeOK IdentitiesUnique OneCurrent
PROPERTIES NoLostUpdate LinksActive
