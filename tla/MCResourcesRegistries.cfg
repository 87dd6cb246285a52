SPECIFICATION Spec
CONSTANTS
    Conn = {c1, c2}
    Tnx = {}
    Stmt = {s1, s2, s3}
    Rslt = {}
    Ctlg = {}
    NullPtr = NullPtr
    Orphan = Orphan
    MaxSlots = 3
    Faults = {"ctor", "direct"}
SYMMETRY AddressSymmetry
CHECK_DEADLOCK FALSE
INVARIANTS LiveAreRetained DanglingAreLost
PROPERTIES CascadeStaysHome TameRelease
