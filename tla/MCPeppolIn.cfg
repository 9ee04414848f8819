SPECIFICATION FairSpec
CONSTANTS
    h1 = h1
    h2 = h2
    inv = inv
    in1 = in1
    in2 = in2
    None = None
    Workers = {h1, h2}
    Processes <- OneServer
    Poller = h1
    Docs = {inv}
    Stored = {inv}
    Incoming <- MCTwoIncoming
    ApSendsSbd = FALSE
    MaxTries = 1
    MaxSends = 0
    MaxRows = 2
    MaxFaults = 3
PROPERTIES
    EverythingArrives
