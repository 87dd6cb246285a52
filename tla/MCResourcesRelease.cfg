SPECIFICATION Spec
CONSTANTS
    Conn = {c1, c2}
    Tnx = {}
    Stmt = {s1, s2, s3}
    Rslt = {}
    Ctlg = {}
    NullPtr = NullPtr
    Orphan = Orphan
    MaxSlots = 3
    Faults = {}
CHECK_DEADLOCK FALSE
PROPERTIES ReleaseFreesAll
