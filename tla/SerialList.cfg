SPECIFICATION Spec
CONSTANTS
    User = {u1}
    Handle = {h1, h2, h3}
    Blocking = {}
    None = none
    Length = 2
    MaxEvents = 2
    Light = TRUE
    Cancels = "guarded"
    Polling = {}
INVARIANTS
    AddedIsLinked
