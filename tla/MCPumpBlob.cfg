SPECIFICATION Spec
CONSTANTS
    MaxRow = 2
    Packs = {0, 2}
    MaxCalls = 1
    Txn = {t1}
    Caller = Caller
    None = None
    Stray = Stray
INVARIANTS BlobInPumpTransaction
