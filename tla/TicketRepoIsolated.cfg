\* Two replicas, one goroutine each: only the database is shared.
SPECIFICATION FairSpec
CONSTANTS
  p1 = p1
  p2 = p2
  p3 = p3
  r1 = r1
  r2 = r2
  None = None
  Tickets = {t1, t2}
  Agents = {a1}
  Procs = {p1, p2}
  Replicas = {r1, r2}
  Rep <- Isolated
  Bulkers = {p1, p2}
  Targets = {"resolved", "reopened"}
  DbErrors = FALSE
  MaxCommits = 2
INVARIANT
  CommittedIsHeard
PROPERTY
  RequestsFinish
