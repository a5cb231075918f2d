SPECIFICATION LastingOutageSpec
CONSTANTS
    light = light
    room = room
    bool = bool
    Names = {room}
    Types = {bool}
    Values = {v1, v2}
    PollPoints <- MCPollPoints
    AsyncPoints <- MCNone
    WritableNames = {room}
    Pollers = {p1}
    Writers = {}
    Setup = Setup
    Close = Close
    Nobody = Nobody
    NoHandle = NoHandle
    NoValue = NoValue
    NoRequest = NoRequest
    MaxChanges = 0
    MaxFaults = 0
    MaxOutages = 1
    MaxWrites = 0
PROPERTY OutageReported
