SPECIFICATION Spec
CONSTANTS
    Reqs = {r1, r2}
    PolicyKeys = {k1, k2}
    None = None
    MaxAttempts = 2
SYMMETRY Symmetry
INVARIANTS ProvisionedByAck WipeCrossed FreshKey
PROPERTIES LockoutKept PatchesMerge
