\* Two tickets; the agents of the calls are given in MCRoutingSides.
SPECIFICATION SidesSpec
CONSTANTS
  t1 = t1
  t2 = t2
  a1 = a1
  s1 = s1
  u1 = u1
  r1 = r1
  r2 = r2
  r3 = r3
  None = None
  Tickets = {t1, t2}
  Agents = {a1, s1}
  Tickers = {r1}
  Callers = {r2}
  Role <- MCRole
  max_concurrent <- MCMax
  Skilled <- MCSkilled
  Rank <- MCRank
  MaxBatch = 2
  MaxMoves = 1
  Targets = {"open", "pending", "reopened"}
INVARIANTS
  TypeOK
  OvershootBounded
PROPERTIES
  TakenFromHolder
  RoutingProgresses
