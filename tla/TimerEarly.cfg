SPECIFICATION AgedSpec
CONSTANTS
    Timer = {t1, t2}
    NoTimer = NoTimer
    Timeouts = {2, 3}
    MaxTimeout = 3
    MaxPosts = 2
    Cleared = TRUE
    Preempting = FALSE
PROPERTY NotEarly
