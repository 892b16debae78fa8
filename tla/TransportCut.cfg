SPECIFICATION CutSpec
CONSTANTS
    None = None
    Op = op
    Replay = replay
    Req <- Requests
    Verifier = {1, 2}
    Status = {200, 403}
    Timeout = 1
    MaxClock = 1
    MaxEpoch = 2
    MaxRunning = 1
    MaxAltered = 1
INVARIANTS
    TypeOK
    OneResponsePerRequest
    RestartKnowsItsOperation
PROPERTIES
    NoLateResponse
    KeepsPromise
    EveryCallSettles
