SPECIFICATION FairSpec
CONSTANTS
    User = {u1, u2}
    Handle = {h1, h2, h3}
    Blocking = {h3}
    None = none
    Length = 2
    MaxEvents = 2
    Light = FALSE
    Cancels = "guarded"
    Polling = {}
INVARIANTS
    QueuesWhole Placed PortInStep SuccessMeansSent
PROPERTIES
    EveryWriteEnds
