SPECIFICATION SlaSpec
CONSTANTS
    b1 = b1
    b2 = b2
    Rows <- MCRows
    Kinds = {"bug", "maintenance"}
    Kind <- MCKind
    Recipients = {m1}
    Processes = {p1}
    Window = 1
    MaxFaults = 1
INVARIANTS AlertsTrue
PROPERTIES BreachIsTold
CHECK_DEADLOCK FALSE
