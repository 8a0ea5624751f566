SPECIFICATION FairSpec
CONSTANTS
    Digests = {d1, d2, d3}
    NoDigest = NoDigest
    MaxChanges = 2
    MaxRestarts = 1
INVARIANTS
    TypeOK
    GenerationNamesDigest
    ChangeSubmittable
PROPERTY SnapshotHeld
