SPECIFICATION Spec
CONSTANTS
    h1 = h1
    h2 = h2
    inv = inv
    in1 = in1
    in2 = in2
    None = None
    Workers = {h1, h2}
    Processes <- OneServer
    Poller = h1
    Docs = {inv}
    Stored = {inv}
    Incoming <- MCIncoming
    ApSendsSbd = FALSE
    MaxTries = 2
    MaxSends = 1
    MaxRows = 0
    MaxFaults = 0
PROPERTIES
    DeliveryStays
