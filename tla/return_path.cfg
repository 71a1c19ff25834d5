SPECIFICATION Spec
CONSTANTS
    LocalId = {a}
    RemoteId = {x, y, z}
    Bridge = {b1, b2}
    Thread = {t1}
    Root = Root
    End = End
    Null = Null
    Limit = 2
    MaxSends = 1
INVARIANTS TypeOK LinksConsistent NoDanglingPath
PROPERTIES PathLossJustified ScanEnds IsPathCache
CHECK_DEADLOCK FALSE
