CONSTANTS
    Versions = {v1, v2, v3}
    Requests = {r1}
    Amounts = {30, 61}
    LastDay = 3
    MonthLength = 2
    MaxEdits = 1
    Off = {2}
    Open = Open
    Nobody = Nobody
    Nothing = Nothing
SPECIFICATION Spec
SYMMETRY Symmetry
INVARIANTS Tiles MonthPaidOnce UnchangedPayIsExact
PROPERTIES ImplementsPaySchedule
