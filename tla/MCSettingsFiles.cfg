SPECIFICATION Spec
CONSTANTS
    Entries = {e1, e2}
    Versions = {v1, v2}
    Service = Service
    Own = Own
    Blank = Blank
    Torn = Torn
    Nil = Nil
    MaxOverlap = 1
    MaxUpdates = 1
    MaxCalls = 1
    MaxCrashes = 1
    MaxDiskErrors = 1
    MaxInvalid = 1
SYMMETRY Symmetry
INVARIANTS
    TypeOK
    FilesComplete
    OwnSecretKept
