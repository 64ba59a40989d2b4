SPECIFICATION MCSpec
CONSTANTS
    Tasks = {t1, t2}
    Proposals = {t1}
    PlainStatus = {"TODO", "DONE"}
    Users = {u1, u2}
    Managers = {u1, u2}
    Members = {u2}
    Engineers = {u2}
    QaEngineers = {}
    Updaters = {u1, u2}
    Proposers = {u1, u2}
    Reviewers = {u1, u2}
    Workers = {w1}
    NoEdge = NoEdge
    Nobody = Nobody
    Tabs = {p1}
    NoTab = NoTab
INVARIANTS ReviewRespected ApprovedByAnother ProposalsMoveOn
PROPERTIES GatesHold UntouchedSaves
CHECK_DEADLOCK FALSE
