SPECIFICATION MCSpec
CONSTANTS
    Waiters = {w1}
    Env = "freertos"
    Platform = "m33"
    Blocking = TRUE
    MaxRounds = 2
    N = 2
    IdxMod = 4
    Receivers = {r1}
    QueueAddr = {q}
    CallAddr = {c}
    OtherAddr = {}
    RL_BLOCK = RL_BLOCK
    Timeouts = {RL_BLOCK}
    SeqMod = 3
    None = None
INVARIANTS TypeOK AnswerTrueHifi4 LinkMeansReady
PROPERTIES LinkComesHifi4 WaitReturns BufferReturns SendReturns
CHECK_DEADLOCK FALSE
