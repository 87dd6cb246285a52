SPECIFICATION Spec
CONSTANTS
    Tnx = {t1}
    Work = {w1, w2}
    Refuses = {"commit"}
    Reconnects = FALSE
SYMMETRY Symmetric
INVARIANTS RollbackRollsBack
CHECK_DEADLOCK FALSE
