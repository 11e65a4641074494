SPECIFICATION SpecUses
CONSTANTS
    N = 2
    IdxMod = 4
    Senders = {s1, s2}
    Receivers = {r1, r2}
    QueueAddr = {q, p}
    CallAddr = {c}
    OtherAddr = {o}
    RL_BLOCK = RL_BLOCK
    Timeouts = {0, 2, RL_BLOCK}
    SeqMod = 3
    None = None
INVARIANTS
    TypeOK
    OnePlace
    Untouched
    InOrder
    QueueNeverFull
    NoLostWakeup
    HeaderIndex
SYMMETRY Symmetry
