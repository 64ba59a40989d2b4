SPECIFICATION MCSpec
CONSTANTS
    Updates = {u1}
    Bugs = {b1}
    Requests = {q1, q2, q3}
    Releases = {r1}
    Admins = {a1}
    Managers = {m1}
    Engineers = {e1}
    Nobody = Nobody
    Handlers = {w1, w2}
    Tabs = {w1}
    MaxFiled = 1
SYMMETRY Symmetry
INVARIANTS ProductionGate OneNextOccurrence BugDatesExplained PagesFit
PROPERTIES StatusMoves AsServiceLevels OutdatedClicks
CHECK_DEADLOCK FALSE
