SPECIFICATION FairSpec
CONSTANTS
    RxFifo = 2
    TxFifo = 1
    RingSize = 2
    SendSizes = {2}
    ReceiveSizes = {1, 3}
    Watermarks = {1}
    SeqMod = 2
    Careful = TRUE
INVARIANTS NoStorm TxIdleMeansSent
PROPERTIES WireInOrder ImplementsByteChannel SendCompletes ReceiveCompletes
