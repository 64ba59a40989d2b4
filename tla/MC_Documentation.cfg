SPECIFICATION Spec
CONSTANTS
    Lines = {l1, l2}
    TaskIds = {t1, t2}
    Handlers = {w1, w2}
    MaxVersion = 4
SYMMETRY Symmetry
INVARIANTS HistoryTrue ApprovedAsReviewed ProposalsExplained
CHECK_DEADLOCK FALSE
