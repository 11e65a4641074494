SPECIFICATION Spec
CONSTANTS
    N = 2
    IdxMod = 4
    Senders = {s1}
    Receivers = {r1}
    QueueAddr = {q}
    CallAddr = {c}
    OtherAddr = {}
    RL_BLOCK = RL_BLOCK
    Timeouts = {0}
    SeqMod = 3
    None = None
INVARIANTS
    OnePlace
