SPECIFICATION DashboardSpec
CONSTANTS
    Browsers = {laptop, phone}
    Elsewhere = Elsewhere
    Handlers = {w1, w2}
    MaxCalls = 5
    Holdings <- Given
    MaxSwitches = 1
    MaxWrites = 3
SYMMETRY Symmetry
INVARIANTS SessionsExplained RevokeAllHolds SecondFactorExplained RefusalsExplained ReadsOwnWrites
CHECK_DEADLOCK FALSE
