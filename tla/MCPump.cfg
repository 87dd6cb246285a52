SPECIFICATION Spec
CONSTANTS
    MaxRow = 5
    Packs = {0, 1, 2, 3}
    MaxCalls = 3
    Txn = {t1, t2, t3}
    Caller = Caller
    None = None
    Stray = Stray
SYMMETRY TxnSymmetry
INVARIANTS NoRowTwice HeldIsOne BlobInLiveTransaction
PROPERTIES SuccessIsComplete FailureLosesOnePack
