\* One replica; one goroutine may run batches, the other single changes.
SPECIFICATION Spec
CONSTANTS
  p1 = p1
  p2 = p2
  p3 = p3
  r1 = r1
  r2 = r2
  None = None
  Tickets = {t1, t2}
  Agents = {a1}
  Procs = {p1, p2}
  Replicas = {r1}
  Rep <- Shared
  Bulkers = {p1}
  Targets = {"resolved", "closed", "reopened"}
  DbErrors = TRUE
  MaxCommits = 3
SYMMETRY Symmetry
INVARIANTS
  TypeOK
  NewIsUnassigned
  HookRestored
  HeardAtMostOnce
  StampsFollowState
  ChangesFormAPath
PROPERTY
  LegalHistory
