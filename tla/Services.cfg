\* Two dispatchers, two schedulers, two sockets, two officers; see MCServices.
SPECIFICATION MCSpec
CONSTANTS
  None = None
  g1 = g1
  k = k
  r1 = r1
  r2 = r2
  x1 = x1
  x2 = x2
  x3 = x3
  c1 = c1
  c2 = c2
  p1 = p1
  p2 = p2
  i1 = i1
  n1 = n1
  wa = wa
  t1 = t1
  t2 = t2
  w1 = w1
  w2 = w2
  b1 = b1
  b2 = b2
  s1 = s1
  s2 = s2
  ag = ag
  sup = sup
  o1 = o1
  o2 = o2
  k1 = k1
  u1 = u1
  u2 = u2
  EventOf <- MCEventOf
  Replicas = {w1, w2}
  Browsers = {b1, b2}
  ScoreOf <- MCScoreOf
  MaxDeliver = 2
  MaxFaults = 1
  SlaTickets = {t1}
  Schedulers = {s1, s2}
  DefaultPolicies <- MCDefaultPolicies
  Fallback = 3
  MaxTime = 3
  Sockets = {s1, s2}
  ChannelsOf <- MCChannelsOf
  BufferSize = 1
  OutSize = 1
  MaxFrames = 1
  Officers = {o1, o2}
  Tenants = {t1, t2}
  Erasures = {k1}
  MaxRows = 1
  Uploads = {u1, u2}
  Infected = {u2}
  UploadFaults = 2
  Consents = {c1, c2}
  TenantOf <- MCTenantOf
  Pages = {p1, p2}
  PagesOf <- MCPagesOf
  IgAccounts = {i1}
  IgOf <- MCIgOf
  Numbers = {n1}
  BusinessesOf <- MCBusinessesOf
  PhonesOf <- MCPhonesOf
  Requests = {r1, r2}
  ActorOf <- MCActorOf
  Admins = {sup}
  Replies = {x1, x2, x3}
  Existing <- MCExisting
  Rows <- MCRows
  Patches <- MCPatches
  TagIds = {g1}
  SlugOf <- MCSlugOf
  TaggedTickets = {k}
INVARIANTS
  ServicesTypeOK
  OneSurvey
  CalmStaysCalm
  HubSafe
  
PROPERTIES
  DecisionsStand
  ServicesEnd
CHECK_DEADLOCK FALSE
