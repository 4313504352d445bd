\* Release build, and headers that may be shorter than the layout (200 bytes).
CONSTANTS
    MaxBatch = 4
    MaxHeight = 3
    ScanWindow = 2
    AnchorSteps = {0, 1}
    TxPerBlock = {1}
    HeaderLens = {200, 249}
    MaxBlock = 1
    MaxTxn = 1
    MaxSends = 2
    Width = 4
    OverflowChecks = FALSE
SPECIFICATION Spec
INVARIANTS ShadowLedgerFaithful
