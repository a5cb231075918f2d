SPECIFICATION MCSpec
CONSTANTS
    temperature = temperature
    output = output
    v1 = v1
    run = run
    Variables <- MCVariables
    Values = {v1, v2}
    States = {run, stop}
    Poller = Poller
    Publisher = Publisher
    Nobody = Nobody
    None = None
    MaxChanges = 1
    MaxFaults = 1
    MaxRefused = 1
    MaxLost = 1
INVARIANTS
    TypeOK
    CallsLocked
    StrictWhole
PROPERTIES
    TopicFollows
    StateReported
