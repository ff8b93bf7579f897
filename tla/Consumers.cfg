\* One fault; the messages of the ticket consumer are given in MCConsumers.
SPECIFICATION SidesSpec
CONSTANTS
  e1 = e1
  e2 = e2
  e3 = e3
  e4 = e4
  w1 = w1
  w2 = w2
  id1 = id1
  id3 = id3
  id4 = id4
  th1 = th1
  c1 = c1
  m1 = m1
  m4 = m4
  m5 = m5
  mid1 = mid1
  NoPid = NoPid
  None = None
  Events = {e1, e2, e3, e4}
  MsgId <- MCMsgId
  HasPayload = {e1, e2, e3}
  Writers = {w1, w2}
  MaxDeliver = 2
  MaxFaults = 1
INVARIANTS
  TypeOK
  SoleWriterChain
  ChainsToARow
  AckedIsRecorded
PROPERTIES
  CommitsInOrder
  EventsSettle
