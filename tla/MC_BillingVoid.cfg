SPECIFICATION Spec
CONSTANTS
    Workers = {w1}
    Keys = {k1, k2}
    MaxInvoices = 1
    Totals = {2}
    Amounts = {1, 2}
PROPERTIES
    VoidTakesNoPayment
