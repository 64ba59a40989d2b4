SPECIFICATION Spec
CONSTANTS
    Installations = {i1}
    Repositories = {r1}
    Items = {x1}
    Projects = {p1}
    Deliveries = {d1}
    Workers = {w1, w2}
    None = None
INVARIANTS DeliveriesExplained
PROPERTIES EndsHold
