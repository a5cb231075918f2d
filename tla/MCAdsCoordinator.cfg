SPECIFICATION Spec
CONSTANTS
    light = light
    room = room
    bool = bool
    Names = {light, room}
    Types = {bool}
    Values = {v1, v2}
    PollPoints <- MCNone
    AsyncPoints <- MCTwoAsync
    WritableNames = {light}
    Pollers = {p1}
    Writers = {w1}
    Setup = Setup
    Close = Close
    Nobody = Nobody
    NoHandle = NoHandle
    NoValue = NoValue
    NoRequest = NoRequest
    MaxChanges = 0
    MaxFaults = 2
    MaxOutages = 1
    MaxWrites = 1
SYMMETRY Symmetry
INVARIANTS
    TypeOK
    CallsSerialized
    AsyncPointsServed
    
    ReleasedBeforeClose
PROPERTY ImplementsConnection
