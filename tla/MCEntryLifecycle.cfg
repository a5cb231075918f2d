SPECIFICATION FairSpec
CONSTANTS
    lamp = lamp
    temp = temp
    Names = {lamp, temp}
    TypeNames = {"BOOL", "REAL", "real"}
    Upper <- MCUpper
    Blank = Blank
    Configs <- MCConfigs
    Flows = {f1}
    Connections = {c1, c2}
    None = None
    MaxUpdates = 2
    MaxFaults = 1
    MaxOutages = 1
    MaxMishaps = 1
INVARIANTS
    TypeOK
    LeaksBounded
    LoadedConnected
    AddedOnce
    ProbesClosed
    PointsServed
    EntitiesServed
PROPERTIES
    OptionsApplied
    
