SPECIFICATION Spec
CONSTANTS
    Workers = {w1}
    Keys = {k1, k2}
    MaxInvoices = 2
    Totals <- SerialTotals
    Amounts = {0, 1, 2}
SYMMETRY Symmetry
INVARIANTS
    FullBalanceCloses
PROPERTIES
    ImplementsLedger
