SPECIFICATION Spec
CONSTANTS
    RxFifo = 1
    TxFifo = 1
    RingSize = 2
    SendSizes = {1}
    ReceiveSizes = {1}
    Watermarks = {0}
    SeqMod = 2
    Careful = TRUE
INVARIANT Served
