SPECIFICATION FairSpec
CONSTANTS
    Timer = {t1, t2}
    NoTimer = NoTimer
    Timeouts = {2, 3}
    MaxTimeout = 2
    MaxPosts = 2
    Cleared = TRUE
    Preempting = FALSE
INVARIANTS CountsMatch HardwareOn  HardwareCovers
PROPERTY TimerFires
