SPECIFICATION OfficesSpec
CONSTANTS
  Posts = {p1, p2}
  Images = {i1}
  Editors = {e1, e2}
  Visitors = {v1}
  NoCover = NoCover
  Kept = Kept
  MaxEdits = 3
  Openings = {o1}
  Submissions = {s1, s2}
  VisitKeys = {k1}
  Requests = {r1, r2}
  NoOpening = NoOpening
  NoSubmission = NoSubmission
  Users = {u1, u2}
  Admin = Admin
  Manager = u1
  Calls = {c1, c2}
  Milestone = {m1}
  Desks = {d1, d2}
  Agents = {a1, a2}
  MaxTickets = 3
  People = {m0}
  Clerks = {h1, h2, h3}
  Keys = {n1}
  Emitters = {x1, x2}
  Processes = {q1}
  BatchSize = 1
  MaxAttempts = 1
  MaxFaults = 0
  MaxOverruns = 0
  Tasks = {t1, t2, t3, t4}
  Workers = {w1}
  NoEdge = NoEdge
INVARIANTS SiteExplained SubmissionsExplained OneLead CompletionTracked CodesFree DecidedOnce NoticeHasDelivery Acyclic
PROPERTIES ListCatchesUp
CHECK_DEADLOCK FALSE
