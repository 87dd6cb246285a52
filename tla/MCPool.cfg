SPECIFICATION Spec
CONSTANTS
    Attachment = {a1, a2}
    Id = {i1, i2}
    Database = {d1, d2}
    Created = {d1}
    Resource = {r1, r2}
    None = None
    NullPtr = NullPtr
    End = End
    Dangling = Dangling
    MaxHit = 1
SYMMETRY PoolSymmetry
INVARIANTS ForeignHasCause InstanceIsOwn FaultsHaveCauses
PROPERTIES KeepsContract
CHECK_DEADLOCK FALSE
