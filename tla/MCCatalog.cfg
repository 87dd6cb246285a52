SPECIFICATION MCSpec
CONSTANTS
    Cursor = {1, 2, 3}
    Procedure = {tables, columns}
    Object = {1, 2, 3}
    None = None
    MaxRow = 2
    Listing = {1, 2, 3}
    ListProc <- BothLists
    NoList = NoList
    MaxName = 2
    MaxFetch = 3
INVARIANTS OnlyKnownFaults RowsOnce LeakAccount SchemasOnce CatalogsEndEmpty
PROPERTIES KeepsContract EveryCursorStops
CHECK_DEADLOCK FALSE
