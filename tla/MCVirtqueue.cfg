SPECIFICATION Spec
CONSTANTS
    N = 3
    IdxMod = 6
INVARIANTS
    TypeOK
    OneOwner
    NoneLost
    NoOverrun
PROPERTY
    ImplementsChannel
