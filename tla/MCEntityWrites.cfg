SPECIFICATION Spec
CONSTANTS
    Calls = {c1, c2}
    Features = {"brightness", "color_temp"}
    Brightness <- MCBrightness
    Kelvins = {9000}
    Levels <- MCLevels
    BrightnessMin <- Below
    BrightnessMax = 50
    KelvinMin = 2000
    KelvinMax = 6500
    LevelType = "INT"
    Unset = Unset
    None = None
    MaxCalls = 2
    MaxFaults = 1
    MaxChanges = 1
SYMMETRY MCSymmetry
INVARIANTS
    TypeOK
    
    
    ShownIsStable
PROPERTY
    ComesOnAsAsked
