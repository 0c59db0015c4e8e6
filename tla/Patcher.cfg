SPECIFICATION Spec
CONSTANTS
    Size = 16
    Sectors <- ThreeSectors
    HookAt = 4
    RoutineAt = 5
    Traps <- TrapsAt
    SimulatorAt <- FirstSector
    StockHook = 1
    Hook = 2
    Blank = 15
    Routine = 3
    SelfLoop = 5
    Escape = 6
    Original = 7
    Bypass = 8
    Stock <- StockImage
    Edits = {0, 5}
    MaxEdits = 2
INVARIANTS
    TypeOK
    FlashBoots
    PreparedInSelection
    RowsAgree
PROPERTY
    EditsShow
