SPECIFICATION Spec
CONSTANTS
    Tasks = {t1, t2}
    Cells = {c1, c2, c3, c4}
    MaxAddr = 3
    None = None
    Junk = Junk
INVARIANTS
    EndpointFound
    NeverFreed
    ReadsBackwards
PROPERTY
    ImplementsTable
SYMMETRY Symmetry
