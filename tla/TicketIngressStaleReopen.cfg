\* One replica and an agent: the state was read before the agent moved it.
SPECIFICATION Spec
CONSTANTS
  m1 = m1
  m2 = m2
  m3 = m3
  m4 = m4
  m5 = m5
  th1 = th1
  th2 = th2
  c1 = c1
  mid1 = mid1
  w1 = w1
  w2 = w2
  NoPid = NoPid
  None = None
  Msgs = {m1, m3}
  Threads = {th1}
  Customers = {c1}
  Thread <- MCOneThread
  CustomerOf <- MCCustomer
  Pid <- MCPid
  Kind <- MCKind
  Workers = {w1}
  AgentTargets = {"open", "resolved", "closed", "reopened"}
  MaxDeliver = 2
  MaxFaults = 0
  MaxMoves = 4
PROPERTY
  LegalHistory
