\* A retried message, a second thread, a receipt and bad JSON; two replicas, crashes, an agent.
SPECIFICATION Spec
CONSTANTS
  m1 = m1
  m2 = m2
  m3 = m3
  m4 = m4
  m5 = m5
  th1 = th1
  th2 = th2
  c1 = c1
  mid1 = mid1
  w1 = w1
  w2 = w2
  NoPid = NoPid
  None = None
  Msgs = {m1, m2, m3, m4, m5}
  Threads = {th1, th2}
  Customers = {c1}
  Thread <- MCThread
  CustomerOf <- MCCustomer
  Pid <- MCPid
  Kind <- MCKind
  Workers = {w1, w2}
  AgentTargets = {"open", "resolved"}
  MaxDeliver = 2
  MaxFaults = 2
  MaxMoves = 2
SYMMETRY Symmetry
INVARIANTS
  TypeOK
  AckedIsStored
  PidStoredOnce
  OneTicketPerConversation
  CustomersPerRef
