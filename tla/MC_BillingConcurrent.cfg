SPECIFICATION Spec
CONSTANTS
    Workers = {w1, w2}
    Keys = {k1, k2}
    MaxInvoices = 1
    Totals <- ConcurrentTotals
    Amounts = {0, 1, 2}
SYMMETRY Symmetry
INVARIANTS
    InvoiceIsSound
    MoneyIsReal
PROPERTIES
    PaymentEndsOnce
