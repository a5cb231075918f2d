SPECIFICATION Spec
CONSTANTS
    Entries = {e1, e2}
    Versions = {v1, v2}
    Service = Service
    Own = Own
    Blank = Blank
    Torn = Torn
    Nil = Nil
    MaxOverlap = 2
    MaxUpdates = 0
    MaxCalls = 0
    MaxCrashes = 0
    MaxDiskErrors = 0
    MaxInvalid = 0
INVARIANT FilesComplete
