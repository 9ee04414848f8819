SPECIFICATION FairSpec
CONSTANTS
    h1 = h1
    h2 = h2
    inv = inv
    in1 = in1
    in2 = in2
    None = None
    Workers = {h1, h2}
    Processes <- OneServer
    Poller = h1
    Docs = {inv}
    Stored = {inv}
    Incoming = {}
    ApSendsSbd = FALSE
    MaxTries = 1
    MaxSends = 1
    MaxRows = 0
    MaxFaults = 0
PROPERTIES
    CallsEnd
    Settled
