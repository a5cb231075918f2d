SPECIFICATION FairSpec
CONSTANTS
    light = light
    room = room
    bool = bool
    Names = {light}
    Types = {bool}
    Values = {v1, v2}
    PollPoints <- MCNone
    AsyncPoints <- MCAsyncPoints
    WritableNames = {light}
    Pollers = {p1}
    Writers = {}
    Setup = Setup
    Close = Close
    Nobody = Nobody
    NoHandle = NoHandle
    NoValue = NoValue
    NoRequest = NoRequest
    MaxChanges = 1
    MaxFaults = 0
    MaxOutages = 0
    MaxWrites = 0
PROPERTY AsyncConverges
