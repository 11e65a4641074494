SPECIFICATION SpecApart
CONSTANTS
    User = {u1, u2}
    Handle = {h1, h2}
    Blocking = {h2}
    None = none
    Length = 2
    MaxEvents = 2
    Light = TRUE
    Cancels = "any"
    Polling = {u2}
INVARIANTS
    BlockingSent
