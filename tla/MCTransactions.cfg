SPECIFICATION Spec
CONSTANTS
    Tnx = {t1, t2}
    Work = {w1, w2}
    Refuses = {"connect", "commit", "rollback", "autocommit"}
    Reconnects = TRUE
SYMMETRY Symmetric
INVARIANTS CountIsOpen AtRest CommittedIsKept RolledBackIsGone
