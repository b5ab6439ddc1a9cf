CONSTANTS
    Page = 4
    Top = 4
    Desc = 1
    TableStart = 6
    PerTable = 4
    Maps <- MCMaps
SPECIFICATION Spec
INVARIANTS AllMapsRight
