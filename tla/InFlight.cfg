\* Release build, full headers: can two shadow commits be pending at once?
CONSTANTS
    MaxBatch = 4
    MaxHeight = 3
    ScanWindow = 2
    AnchorSteps = {0, 1}
    TxPerBlock = {1}
    HeaderLens = {249}
    MaxBlock = 1
    MaxTxn = 1
    MaxSends = 2
    Width = 4
    OverflowChecks = FALSE
SPECIFICATION Spec
INVARIANTS AtMostOneInFlight
