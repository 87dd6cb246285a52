CONSTANTS
    Conns = {c1, c2}
    Stmts = {s1, s2}
    Handles = {h1, h2}
    NoHandle = NoHandle
    NoConn = NoConn
    Levels = {l1, l2}
    Default = Default
    MaxDbc = 2
SPECIFICATION Spec
SYMMETRY Symmetry
CHECK_DEADLOCK FALSE
INVARIANTS RememberedIsForced OnlyOutlivedLoseHandle NoStrayHandle
PROPERTIES OnlyOutlivedHarm
