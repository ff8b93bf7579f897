\* Two deliveries, one fault; a platform and a provider post twice at most, a delivery has two attempts.
SPECIFICATION OutsideSpec
CONSTANTS
  r1 = r1
  r2 = r2
  t1 = t1
  e1 = e1
  e2 = e2
  i1 = i1
  i2 = i2
  a1 = a1
  a2 = a2
  m1 = m1
  m2 = m2
  m3 = m3
  b1 = b1
  b2 = b2
  s1 = s1
  s2 = s2
  w1 = w1
  w2 = w2
  None = None
  Replies = {r1, r2}
  Tickets = {t1}
  TicketOf <- MCTicketOf
  Channels = {"fb", "ig", "wa", "email", "x", "widget", "voice"}
  MaxDeliver = 2
  PlatformEvents = {e1, e2}
  Ids = {i1, i2}
  Accounts = {a1, a2}
  PlatformTries = 2
  Mails = {m1, m2, m3}
  Order <- MCOrder
  BoxOf <- MCBoxOf
  Mid <- MCMid
  Posted = {m1}
  Batch = 1
  Buffer = 1
  ProviderTries = 2
  Subs = {s1, s2}
  DomainEvents = {e1, e2}
  Patterns <- MCPatterns
  SubjectOf <- MCSubjectOf
  HookWorkers = {w1, w2}
  MaxAttempts = 2
  AutoDisableThreshold = 3
  Prefetch = 1
  MaxCalls = 2
  MaxFaults = 1
INVARIANTS
  EdgesTypeOK
  CopiesExcused
  LogIsTrue
  EventsAccountedFor
  MailAccountedFor
  OneAttemptAtATime
  DisabledIsQuiet
PROPERTIES
  FirstResponseStands
  EverythingEnds
CHECK_DEADLOCK FALSE
