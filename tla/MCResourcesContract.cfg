SPECIFICATION Spec
CONSTANTS
    Conn = {c1, c2, c3}
    Tnx = {t1}
    Stmt = {s1}
    Rslt = {r1}
    Ctlg = {g1}
    NullPtr = NullPtr
    Orphan = Orphan
    MaxSlots = 4
    Faults = {}
CHECK_DEADLOCK FALSE
INVARIANTS NoOrphanHandle
PROPERTIES KeepsContract TameExpunge
